---------------------------- MODULE Spec2Model ----------------------------
(***************************************************************************)
(* A model of the DXF parser bundled with three-dxf                        *)
(* (src/sample/libs/js/dxf-parser.js): the value parser parseGroupValue,   *)
(* the scanner DxfArrayScanner, the document builder DxfParser._parse      *)
(* with its section, table, block and entity readers, and parseSync and    *)
(* parseStream; and of the adapter that draws a document (src/src/index.js,*)
(* TextLoader.js, utils.js).                                               *)
(*                                                                         *)
(* JavaScript values are modelled as records, one shape per type:          *)
(*   a string   [s |-> "EOF"]                                              *)
(*   a number   [n |-> m, e |-> k]   the decimal m / 10^k, normalised      *)
(*   NaN        [nan |-> TRUE]                                             *)
(*   a boolean  [b |-> TRUE]                                               *)
(*   undefined  [undef |-> TRUE],   null  [null |-> TRUE]                  *)
(* and a JavaScript object as a function from the names of the fields it   *)
(* has to their values.  A line of the file is a TLA+ string.              *)
(***************************************************************************)
EXTENDS Integers, Sequences, FiniteSets, TLC

VARIABLES
    pgv,        \* SpecValue: one call of parseGroupValue, its arguments and outcome
    _data,      \* SpecScanner: the scanner's array of lines
    length,     \* _data.length
    _pointer,   \* DxfArrayScanner._pointer
    _eof,       \* DxfArrayScanner._eof
    call,       \* SpecScanner: the last scanner method called and what it gave
    sawEof,     \* SpecScanner: a group (0,"EOF") has been returned to the caller
    returned,   \* SpecScanner: the number of groups next() has returned
    curr,       \* _parse: the current group
    dxf,        \* _parse: the document
    stack,      \* _parse: the call stack, the frame of the running routine last
    status,     \* _parse: "called", "running", "returned", "thrown" or "looping"
    error,      \* _parse: the message of the error thrown
    kind,       \* Spec: the family of files the file read belongs to
    entityTags, \* Spec: the entity types named by the code-0 groups of the
                \*       ENTITIES section being read, in input order
    sectionOpen,\* Spec: no (0,"ENDSEC") was read since that section began
    skipping,   \* Spec: inside a section parseAll skipped, before its (0,"ENDSEC")
    log,        \* _parse: the messages its routines have written to the console
    sectionGroups, \* Spec: for each part of dxf, the groups the reader of its
                \*       section has read since parseAll called it
    dxfString,  \* parseStream: the text each call has gathered from its stream
    emitted,    \* SpecStream: the events each stream has emitted, in order
    done,       \* parseStream: the invocations of each call's callback, in order
    uncaught,   \* SpecStream: the errors thrown out of an event handler
    caller,     \* SpecStream: what called the _parse that runs
    parses,     \* SpecStream: the text and the outcome of every _parse so far
    parsedDxfData, \* DxfLoader.load: the document drawn
    _textPromises, \* DxfTextLoader._textPromises: "pending" or "resolved" each
    loads       \* SpecLoader: every call of load, what it drew and gave onLoad

scannerVars == <<_data, length, _pointer, _eof, call, sawEof, returned>>
parserVars ==
    <<curr, dxf, stack, status, error, kind, entityTags, sectionOpen, skipping, log,
      sectionGroups>>
streamVars == <<dxfString, emitted, done, uncaught, caller, parses>>
loaderVars == <<parsedDxfData, _textPromises, loads>>
hostVars == <<streamVars, loaderVars>>
vars == <<pgv, scannerVars, parserVars, hostVars>>

-----------------------------------------------------------------------------
(* JavaScript values *)

Str(x) == [s |-> x]
Num(k) == [n |-> k, e |-> 0]
NaN == [nan |-> TRUE]
Bool(x) == [b |-> x]
Undefined == [undef |-> TRUE]
Null == [null |-> TRUE]

IsStr(v) == DOMAIN v = {"s"}
IsNum(v) == DOMAIN v = {"n", "e"}
IsNaN(v) == DOMAIN v = {"nan"}
IsBool(v) == DOMAIN v = {"b"}
\* Number.isInteger
IsInteger(v) == IsNum(v) /\ v.e = 0

\* A decimal with its trailing zero fraction digits dropped, so that equal
\* numbers are equal records (1.50 = 1.5, 2.0 = 2).
RECURSIVE Normalize(_, _)
Normalize(m, k) ==
    IF k > 0 /\ m % 10 = 0 THEN Normalize(m \div 10, k - 1)
    ELSE [n |-> m, e |-> k]

-----------------------------------------------------------------------------
(* Strings: String.prototype.trim, parseInt, parseFloat *)

WhiteSpace == {" "}
Digits == {"0", "1", "2", "3", "4", "5", "6", "7", "8", "9"}

CharAt(str, i) == SubSeq(str, i, i)

DigitVal(c) ==
    CASE c = "0" -> 0 [] c = "1" -> 1 [] c = "2" -> 2 [] c = "3" -> 3
      [] c = "4" -> 4 [] c = "5" -> 5 [] c = "6" -> 6 [] c = "7" -> 7
      [] c = "8" -> 8 [] c = "9" -> 9

RECURSIVE TrimLeft(_)
TrimLeft(str) ==
    IF Len(str) > 0 /\ CharAt(str, 1) \in WhiteSpace
    THEN TrimLeft(SubSeq(str, 2, Len(str)))
    ELSE str

RECURSIVE TrimRight(_)
TrimRight(str) ==
    IF Len(str) > 0 /\ CharAt(str, Len(str)) \in WhiteSpace
    THEN TrimRight(SubSeq(str, 1, Len(str) - 1))
    ELSE str

Trim(str) == TrimRight(TrimLeft(str))

\* The number of leading decimal digits of str from position i on.
RECURSIVE DigitRun(_, _)
DigitRun(str, i) ==
    IF i <= Len(str) /\ CharAt(str, i) \in Digits
    THEN 1 + DigitRun(str, i + 1)
    ELSE 0

\* The value of the k digits of str that start at position i.
RECURSIVE DigitsValue(_, _, _)
DigitsValue(str, i, k) ==
    IF k = 0 THEN 0
    ELSE 10 * DigitsValue(str, i, k - 1) + DigitVal(CharAt(str, i + k - 1))

\* parseInt(str) in radix 10: leading white space, an optional sign, then the
\* longest run of digits; NaN when there is no digit; what follows is ignored.
ParseInt(str) ==
    LET t == TrimLeft(str)
        signed == Len(t) > 0 /\ CharAt(t, 1) \in {"-", "+"}
        neg == Len(t) > 0 /\ CharAt(t, 1) = "-"
        from == IF signed THEN 2 ELSE 1
        k == DigitRun(t, from)
        m == DigitsValue(t, from, k)
    IN  IF k = 0 THEN NaN ELSE Num(IF neg THEN 0 - m ELSE m)

\* parseFloat(str): leading white space, an optional sign, digits, an optional
\* point and fraction digits; NaN when neither part has a digit.
ParseFloat(str) ==
    LET t == TrimLeft(str)
        signed == Len(t) > 0 /\ CharAt(t, 1) \in {"-", "+"}
        neg == Len(t) > 0 /\ CharAt(t, 1) = "-"
        from == IF signed THEN 2 ELSE 1
        k == DigitRun(t, from)
        point == from + k <= Len(t) /\ CharAt(t, from + k) = "."
        f == IF point THEN DigitRun(t, from + k + 1) ELSE 0
        m == DigitsValue(t, from, k)
        fr == DigitsValue(t, from + k + 1, f)
        mant == m * (10 ^ f) + fr
    IN  IF k = 0 /\ f = 0 THEN NaN
        ELSE Normalize(IF neg THEN 0 - mant ELSE mant, f)


-----------------------------------------------------------------------------
(* The value parser: parseGroupValue and parseBoolean *)

\* a <= k and a >= k for a JavaScript number a and an integer k; false for NaN.
NumLe(a, k) == IsNum(a) /\ a.n <= k * (10 ^ a.e)
NumGe(a, k) == IsNum(a) /\ a.n >= k * (10 ^ a.e)
InRange(code, lo, hi) == NumGe(code, lo) /\ NumLe(code, hi)

\* The outcome of a call: [value |-> v] when it returns v, [throw |-> name]
\* when it throws.
Return(v) == [value |-> v]
Throw(name) == [throw |-> name]
Throws(r) == "throw" \in DOMAIN r

parseBoolean(str) ==
    IF str = "0" THEN Return(Bool(FALSE))
    ELSE IF str = "1" THEN Return(Bool(TRUE))
    ELSE Throw("TypeError: cannot be cast to Boolean type")

\* parseGroupValue with the integer range 60-99 read by parseFloat.
parseGroupValueFloat60(code, value) ==
    IF NumLe(code, 9) THEN Return(Str(value))
    ELSE IF InRange(code, 10, 99) THEN Return(ParseFloat(value))
    ELSE IF InRange(code, 100, 109) THEN Return(Str(value))
    ELSE IF InRange(code, 110, 149) THEN Return(ParseFloat(value))
    ELSE IF InRange(code, 160, 179) THEN Return(ParseInt(value))
    ELSE IF InRange(code, 210, 239) THEN Return(ParseFloat(value))
    ELSE IF InRange(code, 270, 289) THEN Return(ParseInt(value))
    ELSE IF InRange(code, 290, 299) THEN parseBoolean(value)
    ELSE Return(Str(value))

parseGroupValue(code, value) ==
    IF NumLe(code, 9) THEN Return(Str(value))
    ELSE IF InRange(code, 10, 59) THEN Return(ParseFloat(value))
    ELSE IF InRange(code, 60, 99) THEN Return(ParseInt(value))
    ELSE IF InRange(code, 100, 109) THEN Return(Str(value))
    ELSE IF InRange(code, 110, 149) THEN Return(ParseFloat(value))
    ELSE IF InRange(code, 160, 179) THEN Return(ParseInt(value))
    ELSE IF InRange(code, 210, 239) THEN Return(ParseFloat(value))
    ELSE IF InRange(code, 270, 289) THEN Return(ParseInt(value))
    ELSE IF InRange(code, 290, 299) THEN parseBoolean(value)
    ELSE IF InRange(code, 300, 369) THEN Return(Str(value))
    ELSE IF InRange(code, 370, 389) THEN Return(ParseInt(value))
    ELSE IF InRange(code, 390, 399) THEN Return(Str(value))
    ELSE IF InRange(code, 400, 409) THEN Return(ParseInt(value))
    ELSE IF InRange(code, 410, 419) THEN Return(Str(value))
    ELSE IF InRange(code, 420, 429) THEN Return(ParseInt(value))
    ELSE IF InRange(code, 430, 439) THEN Return(Str(value))
    ELSE IF InRange(code, 440, 459) THEN Return(ParseInt(value))
    ELSE IF InRange(code, 460, 469) THEN Return(ParseFloat(value))
    ELSE IF InRange(code, 470, 481) THEN Return(Str(value))
    ELSE IF code = Num(999) THEN Return(Str(value))
    ELSE IF InRange(code, 1000, 1009) THEN Return(Str(value))
    ELSE IF InRange(code, 1010, 1059) THEN Return(ParseFloat(value))
    ELSE IF InRange(code, 1060, 1071) THEN Return(ParseInt(value))
    ELSE Return(Str(value))   \* logs a warning

-----------------------------------------------------------------------------
(* The scanner: DxfArrayScanner.  A method is an operator on the scanner's    *)
(* fields (this) that gives the method's outcome and the fields after it.    *)

This == [_pointer |-> _pointer, _eof |-> _eof, length |-> length]

\* hasNext() without its check of the EOF flag.
hasNextIgnoringEof(this) ==
    [this |-> this,
     ret |-> IF this._pointer > this.length - 2 THEN FALSE ELSE TRUE]

hasNext(this) ==
    [this |-> this,
     ret |-> IF this._eof THEN FALSE
             ELSE IF this._pointer > this.length - 2 THEN FALSE
             ELSE TRUE]

isEOF(this) == [this |-> this, ret |-> this._eof]

\* data[i] for a JavaScript (0-based) index i of the array data
At(data, i) == data[i + 1]

\* next() advancing the pointer once per group.
nextOneLine(this, data) ==
    LET h == hasNext(this)
        code == ParseInt(At(data, this._pointer))
        v == parseGroupValue(code, Trim(At(data, this._pointer + 1)))
        t1 == [this EXCEPT !._pointer = @ + 1]
    IN  IF ~h.ret THEN [this |-> this, out |-> Throw("Unexpected end of input")]
        ELSE IF Throws(v) THEN [this |-> t1, out |-> v]
        ELSE [this |-> [t1 EXCEPT !._eof = @ \/ (code = Num(0) /\ v.value = Str("EOF"))],
              out |-> Return([code |-> code, value |-> v.value])]

\* next() on the array data, which is read only when hasNext() holds.
next(this, data) ==
    LET h == hasNext(this)
        t0 == h.this
        code == ParseInt(At(data, t0._pointer))
        t1 == [t0 EXCEPT !._pointer = @ + 1]
        v == parseGroupValue(code, Trim(At(data, t1._pointer)))
        t2 == [t1 EXCEPT !._pointer = @ + 1]
    IN  IF ~h.ret
        THEN [this |-> t0,
              out |-> IF ~t0._eof
                      THEN Throw("Unexpected end of input: EOF group not read before end of file")
                      ELSE Throw("Cannot call 'next' after EOF group has been read")]
        ELSE IF Throws(v) THEN [this |-> t1, out |-> v]
        ELSE [this |-> [t2 EXCEPT !._eof = @ \/ (code = Num(0) /\ v.value = Str("EOF"))],
              out |-> Return([code |-> code, value |-> v.value])]

-----------------------------------------------------------------------------
(* JavaScript objects and numbers as the parser uses them *)

EmptyObject == [k \in {} |-> Undefined]
Has(o, k) == k \in DOMAIN o
\* o[k] = v
Put(o, k, v) == [x \in DOMAIN o \cup {k} |-> IF x = k THEN v ELSE o[x]]
\* o[k], undefined for a field o lacks
Get(o, k) == IF k \in DOMAIN o THEN o[k] ELSE Undefined

IsNullish(v) == DOMAIN v = {"null"} \/ DOMAIN v = {"undef"}
IsPrimitive(v) == IsStr(v) \/ IsNum(v) \/ IsNaN(v) \/ IsBool(v)
\* ToBoolean(v) for a primitive, null or undefined
Truthy(v) ==
    IF IsStr(v) THEN v.s # ""
    ELSE IF IsNum(v) THEN v.n # 0
    ELSE IF IsBool(v) THEN v.b
    ELSE FALSE
\* The property name a value makes when it is used as a key: o[v]
Key(v) == IF IsStr(v) THEN v.s ELSE IF IsNullish(v) THEN "undefined" ELSE "NaN"

\* o.k = v: a TypeError on null and undefined, nothing on a primitive (the
\* bundle is not in strict mode), an assignment on an object.
SetProperty(o, k, v) ==
    IF IsNullish(o) THEN Throw("TypeError: cannot set property of null")
    ELSE IF IsPrimitive(o) THEN Return(o)
    ELSE Return(Put(o, k, v))

\* a + k for an integer k
NumAdd(a, k) == IF IsNum(a) THEN [n |-> a.n + k * (10 ^ a.e), e |-> a.e] ELSE NaN
\* Math.abs, and the number as it is when Math.abs is left out
AbsLeftOut(a) == a
Abs(a) == IF IsNum(a) THEN [n |-> IF a.n < 0 THEN 0 - a.n ELSE a.n, e |-> a.e] ELSE NaN
\* a - b and a < b for two numbers
NumSub(a, b) ==
    IF IsNum(a) /\ IsNum(b)
    THEN LET k == IF a.e > b.e THEN a.e ELSE b.e
         IN  Normalize(a.n * (10 ^ (k - a.e)) - b.n * (10 ^ (k - b.e)), k)
    ELSE NaN
NumLt(a, b) == IsNum(a) /\ IsNum(b) /\ NumSub(a, b).n < 0

AUTO_CAD_COLOR_INDEX ==
    <<
    0, 16711680, 16776960, 65280, 65535, 255, 16711935, 16777215,
    8421504, 12632256, 16711680, 16744319, 13369344, 13395558, 10027008, 10046540,
    8323072, 8339263, 4980736, 4990502, 16727808, 16752511, 13382400, 13401958,
    10036736, 10051404, 8331008, 8343359, 4985600, 4992806, 16744192, 16760703,
    13395456, 13408614, 10046464, 10056268, 8339200, 8347455, 4990464, 4995366,
    16760576, 16768895, 13408512, 13415014, 10056192, 10061132, 8347392, 8351551,
    4995328, 4997670, 16776960, 16777087, 13421568, 13421670, 10000384, 10000460,
    8355584, 8355647, 5000192, 5000230, 12582656, 14679935, 10079232, 11717734,
    7510016, 8755276, 6258432, 7307071, 3755008, 4344870, 8388352, 12582783,
    6736896, 10079334, 5019648, 7510092, 4161280, 6258495, 2509824, 3755046,
    4194048, 10485631, 3394560, 8375398, 2529280, 6264908, 2064128, 5209919,
    1264640, 3099686, 65280, 8388479, 52224, 6736998, 38912, 5019724,
    32512, 4161343, 19456, 2509862, 65343, 8388511, 52275, 6737023,
    38950, 5019743, 32543, 4161359, 19475, 2509871, 65407, 8388543,
    52326, 6737049, 38988, 5019762, 32575, 4161375, 19494, 2509881,
    65471, 8388575, 52377, 6737074, 39026, 5019781, 32607, 4161391,
    19513, 2509890, 65535, 8388607, 52428, 6737100, 39064, 5019800,
    32639, 4161407, 19532, 2509900, 49151, 8380415, 39372, 6730444,
    29336, 5014936, 24447, 4157311, 14668, 2507340, 32767, 8372223,
    26316, 6724044, 19608, 5010072, 16255, 4153215, 9804, 2505036,
    16383, 8364031, 13260, 6717388, 9880, 5005208, 8063, 4149119,
    4940, 2502476, 255, 8355839, 204, 6710988, 152, 5000344,
    127, 4145023, 76, 2500172, 4129023, 10452991, 3342540, 8349388,
    2490520, 6245528, 2031743, 5193599, 1245260, 3089996, 8323327, 12550143,
    6684876, 10053324, 4980888, 7490712, 4128895, 6242175, 2490444, 3745356,
    12517631, 14647295, 10027212, 11691724, 7471256, 8735896, 6226047, 7290751,
    3735628, 4335180, 16711935, 16744447, 13369548, 13395660, 9961624, 9981080,
    8323199, 8339327, 4980812, 4990540, 16711871, 16744415, 13369497, 13395634,
    9961586, 9981061, 8323167, 8339311, 4980793, 4990530, 16711807, 16744383,
    13369446, 13395609, 9961548, 9981042, 8323135, 8339295, 4980774, 4990521,
    16711743, 16744351, 13369395, 13395583, 9961510, 9981023, 8323103, 8339279,
    4980755, 4990511, 3355443, 5987163, 8684676, 11382189, 14079702, 16777215
    >>

\* getAcadColor(index): AUTO_CAD_COLOR_INDEX[index], undefined outside the table
getAcadColor(index) ==
    IF IsInteger(index) /\ index.n >= 0 /\ index.n < Len(AUTO_CAD_COLOR_INDEX)
    THEN Num(AUTO_CAD_COLOR_INDEX[index.n + 1])
    ELSE Undefined

groupIs(c, code, value) == c.code = Num(code) /\ c.value = Str(value)

-----------------------------------------------------------------------------
(* The document builder: DxfParser.prototype._parse.                         *)
(*                                                                           *)
(* The routines of _parse call one another and share the current group curr  *)
(* and the scanner.  The model keeps the call stack: a frame holds a         *)
(* routine's name (fn), its place (pc) and its local variables.  A routine   *)
(* is an operator that, from its frame f and the current group c, gives what *)
(* it does up to its next call of scanner.next(), its next call of a         *)
(* routine, its return or its throw:                                         *)
(*   Read(f)      call scanner.next(), assign the group to curr, go on as f   *)
(*   Goto(f)      go on as f (a loop iteration that reads nothing)           *)
(*   Call(f, g)   call the routine whose fresh frame is g, then go on as f   *)
(*   Ret(v)       return v                                                   *)
(*   Fail(m)      throw the error m                                          *)
(* and Logged(eff, m) is the effect eff after console.log(m) or              *)
(* console.error(m).                                                         *)
(* The call of scanner.next() is a step of its own (ScannerNext).            *)

Read(f) == [kind |-> "read", frame |-> f]
Goto(f) == [kind |-> "goto", frame |-> f]
Call(f, g) == [kind |-> "call", frame |-> f, callee |-> g]
Ret(v) == [kind |-> "return", value |-> v]
Fail(m) == [kind |-> "throw", error |-> m]

\* The effect eff after the message m is written to the console.
Logged(eff, m) == [k \in DOMAIN eff \cup {"log"} |-> IF k = "log" THEN m ELSE eff[k]]
Logs(eff) == "log" \in DOMAIN eff

At_(f, pc) == [f EXCEPT !.pc = pc]

(* parseAll, lines 484-516 *)
ParseAllFrame == [fn |-> "parseAll", pc |-> "start"]
HeaderFrame ==
    [fn |-> "parseHeader", pc |-> "start", currVarName |-> Null,
     currVarValue |-> Null, header |-> EmptyObject, aliases |-> {}]
BlocksFrame == [fn |-> "parseBlocks", pc |-> "loop", blocks |-> EmptyObject]
BlockFrame == [fn |-> "parseBlock", pc |-> "start", block |-> EmptyObject]
TablesFrame == [fn |-> "parseTables", pc |-> "start", tables |-> EmptyObject]
EntitiesFrame(forBlock) ==
    [fn |-> "parseEntities", pc |-> "loop", forBlock |-> forBlock, entities |-> <<>>]

\* eof is scanner.isEOF(), d the document dxf
parseAll(f, c, eof, d) ==
    CASE f.pc = "start" -> Read(At_(f, "loop"))
      [] f.pc = "loop" ->
            IF eof THEN Ret(d)
            ELSE IF groupIs(c, 0, "SECTION") THEN Read(At_(f, "section"))
            ELSE Read(At_(f, "loop"))
      [] f.pc = "section" ->
            IF c.code # Num(2)
            THEN Logged(Read(At_(f, "loop")), "Unexpected code after 0:SECTION")
            ELSE IF c.value = Str("HEADER") THEN Call(At_(f, "header"), HeaderFrame)
            ELSE IF c.value = Str("BLOCKS") THEN Call(At_(f, "blocks"), BlocksFrame)
            ELSE IF c.value = Str("ENTITIES") THEN Read(At_(f, "entities"))
            ELSE IF c.value = Str("TABLES") THEN Call(At_(f, "tables"), TablesFrame)
            ELSE IF c.value = Str("EOF") THEN Ret(d)
            ELSE Logged(Goto(At_(f, "loop")), "INFO: Skipping section")
      [] f.pc = "entities" -> Call(At_(f, "entitiesCall"), EntitiesFrame(FALSE))

\* The assignment parseAll makes of the value v a routine it called returns.
parseAllResume(f, v, d) ==
    [frame |-> At_(f, "loop"),
     dxf |-> CASE f.pc = "header" -> Put(d, "header", v)
               [] f.pc = "blocks" -> Put(d, "blocks", v)
               [] f.pc = "entitiesCall" -> Put(d, "entities", v)
               [] f.pc = "tables" -> Put(d, "tables", v)]

(* parseHeader, lines 526-560.  header[currVarName] = currVarValue makes the *)
(* header hold the very object currVarValue is, so that a later             *)
(* currVarValue.y = ... changes the header too: aliases holds the names     *)
(* whose value in header is that object.                                    *)
IsObject(v) == ~IsPrimitive(v) /\ ~IsNullish(v)

\* header[currVarName] = currVarValue, and the frame when it is left out
FlushLeftOut(f) == f
FlushHeader(f) ==
    IF Truthy(f.currVarName)
    THEN [f EXCEPT !.header = Put(@, Key(f.currVarName), f.currVarValue),
                   !.aliases = IF IsObject(f.currVarValue)
                               THEN @ \cup {Key(f.currVarName)} ELSE @]
    ELSE f

parseHeader(f, c) ==
    CASE f.pc = "start" -> Read(At_(f, "loop"))
      [] f.pc = "loop" ->
            IF groupIs(c, 0, "ENDSEC") THEN Read(At_(FlushHeader(f), "end"))
            ELSE IF c.code = Num(9)
            THEN Read([FlushHeader(f) EXCEPT !.currVarName = c.value])
            ELSE IF c.code = Num(10)
            THEN Read([f EXCEPT !.currVarValue = [x |-> c.value], !.aliases = {}])
            ELSE IF c.code = Num(20) \/ c.code = Num(30)
            THEN LET r == SetProperty(f.currVarValue,
                                      IF c.code = Num(20) THEN "y" ELSE "z", c.value)
                 IN  IF Throws(r) THEN Fail(r.throw)
                     ELSE Read([f EXCEPT !.currVarValue = r.value,
                                         !.header = [k \in DOMAIN @ |->
                                                        IF k \in f.aliases THEN r.value
                                                        ELSE @[k]]])
            ELSE Read([f EXCEPT !.currVarValue = c.value, !.aliases = {}])
      [] f.pc = "end" -> Ret(f.header)

(* parseBlocks and parseBlock, lines 566-610 *)
parseBlocks(f, c) ==
    IF c.value = Str("EOF") THEN Ret(f.blocks)
    ELSE IF groupIs(c, 0, "ENDSEC") THEN Ret(f.blocks)
    ELSE IF groupIs(c, 0, "BLOCK") THEN Call(At_(f, "block"), BlockFrame)
    ELSE Read(f)

parseBlocksResume(f, v) ==
    [f EXCEPT !.pc = "loop", !.blocks = Put(@, Key(Get(v, "name")), v)]

parseBlock(f, c) ==
    CASE f.pc = "start" -> Read(At_(f, "loop"))
      [] f.pc = "loop" ->
            IF c.value = Str("EOF") THEN Ret(f.block)
            ELSE IF groupIs(c, 0, "ENDBLK") THEN Ret(f.block)
            ELSE IF c.code = Num(2) THEN Read([f EXCEPT !.block = Put(@, "name", c.value)])
            ELSE IF c.code = Num(8) THEN Read([f EXCEPT !.block = Put(@, "layer", c.value)])
            ELSE IF c.code = Num(0) THEN Call(At_(f, "entities"), EntitiesFrame(TRUE))
            ELSE Read(f)
      [] f.pc = "return" -> Ret(f.block)

parseBlockResume(f, v) ==
    [f EXCEPT !.pc = "return", !.block = Put(@, "entities", v)]

(* parseTables, lines 616-641 *)
LayerTableFrame ==
    [fn |-> "parseLayerTable", pc |-> "start", layers |-> EmptyObject, length |-> Num(0)]
LineTypeTableFrame ==
    [fn |-> "parseLineTypeTable", pc |-> "start", ltypes |-> EmptyObject, length |-> Num(0)]
LayersFrame ==
    [fn |-> "parseLayers", pc |-> "start", layers |-> EmptyObject,
     layerName |-> Undefined, layer |-> EmptyObject]
LineTypesFrame ==
    [fn |-> "parseLineTypes", pc |-> "start", ltypes |-> EmptyObject,
     ltypeName |-> Undefined, ltype |-> EmptyObject, length |-> Undefined]

parseTables(f, c) ==
    CASE f.pc = "start" -> Read(At_(f, "loop"))
      [] f.pc = "loop" ->
            IF c.value = Str("EOF") THEN Read(At_(f, "end"))
            ELSE IF groupIs(c, 0, "ENDSEC") THEN Read(At_(f, "end"))
            ELSE IF groupIs(c, 0, "TABLE") THEN Read(At_(f, "table"))
            ELSE Read(f)
      [] f.pc = "table" ->
            IF groupIs(c, 2, "LAYER") THEN Call(At_(f, "layers"), LayerTableFrame)
            ELSE IF groupIs(c, 2, "LTYPE") THEN Call(At_(f, "lineTypes"), LineTypeTableFrame)
            ELSE Goto(At_(f, "loop"))
      [] f.pc = "end" -> Ret(f.tables)

parseTablesResume(f, v) ==
    [f EXCEPT !.pc = "loop", !.tables = Put(@, f.pc, v)]

(* parseLayerTable, lines 643-663 *)
parseLayerTable(f, c) ==
    CASE f.pc = "start" -> Read(At_(f, "loop"))
      [] f.pc = "loop" ->
            IF groupIs(c, 0, "ENDTAB") THEN Read(At_(f, "end"))
            ELSE IF c.code = Num(70) THEN Read([f EXCEPT !.length = c.value])
            ELSE IF groupIs(c, 0, "LAYER") THEN Call(At_(f, "layers"), LayersFrame)
            ELSE Read(f)
      [] f.pc = "break" -> Read(At_(f, "end"))
      [] f.pc = "end" -> Ret(f.layers)

parseLayerTableResume(f, v) == [f EXCEPT !.pc = "break", !.layers = v]

(* parseLineTypeTable, lines 665-684 *)
parseLineTypeTable(f, c) ==
    CASE f.pc = "start" -> Read(At_(f, "loop"))
      [] f.pc = "loop" ->
            IF groupIs(c, 0, "ENDTAB") THEN Read(At_(f, "end"))
            ELSE IF c.code = Num(70) THEN Read([f EXCEPT !.length = c.value])
            ELSE IF groupIs(c, 0, "LTYPE") THEN Call(At_(f, "ltypes"), LineTypesFrame)
            ELSE Read(f)
      [] f.pc = "break" -> Read(At_(f, "end"))
      [] f.pc = "end" -> Ret(f.ltypes)

parseLineTypeTableResume(f, v) == [f EXCEPT !.pc = "break", !.ltypes = v]

(* parseLineTypes, lines 686-731 *)
\* length > 0 for a number, NaN or undefined
GreaterThanZero(v) == IsNum(v) /\ v.n > 0

parseLineTypes(f, c) ==
    CASE f.pc = "start" -> Read(At_(f, "loop"))
      [] f.pc = "loop" ->
            IF groupIs(c, 0, "ENDTAB")
            THEN Ret(Put(f.ltypes, Key(f.ltypeName), f.ltype))
            ELSE IF c.code = Num(2)
            THEN Read([f EXCEPT !.ltype = Put(@, "name", c.value), !.ltypeName = c.value])
            ELSE IF c.code = Num(3)
            THEN Read([f EXCEPT !.ltype = Put(@, "description", c.value)])
            ELSE IF c.code = Num(73)
            THEN Read([f EXCEPT !.length = c.value,
                                !.ltype = IF GreaterThanZero(c.value)
                                          THEN Put(@, "pattern", <<>>) ELSE @])
            ELSE IF c.code = Num(40)
            THEN Read([f EXCEPT !.ltype = Put(@, "patternLength", c.value)])
            ELSE IF c.code = Num(49)
            THEN IF ~Has(f.ltype, "pattern")
                 THEN Fail("TypeError: cannot read property 'push' of undefined")
                 ELSE Read([f EXCEPT !.ltype = Put(@, "pattern", Append(@.pattern, c.value))])
            ELSE IF c.code = Num(0)
            THEN IF GreaterThanZero(f.length) /\ ~Has(f.ltype, "pattern")
                 THEN Fail("TypeError: cannot read property 'length' of undefined")
                 ELSE LET flushed == Read([f EXCEPT !.ltypes = Put(@, Key(f.ltypeName), f.ltype),
                                                    !.ltype = EmptyObject])
                      IN  IF GreaterThanZero(f.length)
                             /\ f.length # Num(Len(f.ltype.pattern))
                          THEN Logged(flushed, "WARNING: lengths do not match on LTYPE pattern")
                          ELSE flushed
            ELSE Read(f)

(* parseLayers, lines 733-772; and parseLayers without the layer = {} and   *)
(* layerName = undefined of a new record.                                   *)
parseLayersWithoutReset(f, c) ==
    CASE f.pc = "start" -> Read(At_(f, "loop"))
      [] f.pc = "loop" ->
            IF groupIs(c, 0, "ENDTAB")
            THEN Ret(Put(f.layers, Key(f.layerName), f.layer))
            ELSE IF c.code = Num(2)
            THEN Read([f EXCEPT !.layer = Put(@, "name", c.value), !.layerName = c.value])
            ELSE IF c.code = Num(62)
            THEN Read([f EXCEPT !.layer =
                          Put(IF NumLe(c.value, 0) THEN Put(@, "hidden", Bool(TRUE)) ELSE @,
                              "color", getAcadColor(Abs(c.value)))])
            ELSE IF c.code = Num(0)
            THEN IF c.value = Str("LAYER")
                 THEN Read([f EXCEPT !.layers = Put(@, Key(f.layerName), f.layer)])
                 ELSE Goto([f EXCEPT !.layers = Put(@, Key(f.layerName), f.layer)])
            ELSE Read(f)

parseLayers(f, c) ==
    CASE f.pc = "start" -> Read(At_(f, "loop"))
      [] f.pc = "loop" ->
            IF groupIs(c, 0, "ENDTAB")
            THEN Ret(Put(f.layers, Key(f.layerName), f.layer))
            ELSE IF c.code = Num(2)
            THEN Read([f EXCEPT !.layer = Put(@, "name", c.value), !.layerName = c.value])
            ELSE IF c.code = Num(62)
            THEN Read([f EXCEPT !.layer =
                          Put(IF NumLe(c.value, 0) THEN Put(@, "hidden", Bool(TRUE)) ELSE @,
                              "color", getAcadColor(Abs(c.value)))])
            ELSE IF c.code = Num(0)
            THEN IF c.value = Str("LAYER")
                 THEN Read([f EXCEPT !.layers = Put(@, Key(f.layerName), f.layer),
                                     !.layer = EmptyObject, !.layerName = Undefined])
                 ELSE Goto([f EXCEPT !.layers = Put(@, Key(f.layerName), f.layer)])
            ELSE Read(f)

(* parseEntities, lines 779-820 *)
\* The entity routine parseEntities calls for a code-0 group of this value.
EntityParser(value) ==
    CASE value = Str("LWPOLYLINE") -> "parseLWPOLYLINE"
      [] value = Str("LINE") -> "parseLINE"
      [] value = Str("CIRCLE") -> "parseCIRCLE"
      [] value = Str("ARC") -> "parseCIRCLE"
      [] value = Str("TEXT") -> "parseTEXT"
      [] value = Str("DIMENSION") -> "parseDIMENSION"
      [] value = Str("SOLID") -> "parseSOLID"
      [] value = Str("POINT") -> "parsePOINT"
      [] OTHER -> "none"

\* The fresh frame of an entity routine called on the group c: its entity
\* holds the type, and what the routine initialises.
EntityFrame(fn, c) ==
    CASE fn = "parseLWPOLYLINE" ->
            [fn |-> fn, pc |-> "start", numberOfVertices |-> Num(0),
             entity |-> [type |-> c.value, vertices |-> <<>>]]
      [] fn = "parseLINE" ->
            [fn |-> fn, pc |-> "start", entity |-> [type |-> c.value, vertices |-> <<>>]]
      [] fn = "parseSOLID" ->
            [fn |-> fn, pc |-> "start", entity |-> [type |-> c.value, points |-> EmptyObject]]
      [] fn = "parseCIRCLE" ->
            [fn |-> fn, pc |-> "start", endAngle |-> Undefined, entity |-> [type |-> c.value]]
      [] OTHER ->
            [fn |-> fn, pc |-> "start", entity |-> [type |-> c.value]]

parseEntities(f, c) ==
    CASE f.pc = "loop" ->
            IF c.code = Num(0)
            THEN IF c.value = Str(IF f.forBlock THEN "ENDBLK" ELSE "ENDSEC")
                 THEN Read(At_(f, "end"))
                 ELSE IF EntityParser(c.value) # "none"
                 THEN Call(At_(f, "push"), EntityFrame(EntityParser(c.value), c))
                 ELSE Logged(Read(f), "WARNING: unsupported entity")
            ELSE Read(f)
      [] f.pc = "end" -> Ret(f.entities)

parseEntitiesResume(f, v) == [f EXCEPT !.pc = "loop", !.entities = Append(@, v)]

(* checkCommonEntityProperties, lines 826-848: the entity after it *)
checkCommonEntityProperties(entity, c) ==
    IF c.code = Num(6) THEN Put(entity, "lineType", c.value)
    ELSE IF c.code = Num(8) THEN Put(entity, "layer", c.value)
    ELSE IF c.code = Num(62) THEN Put(entity, "color", c.value)
    ELSE IF c.code = Num(420) THEN Put(entity, "color", c.value)
    ELSE entity

\* default: checkCommonEntityProperties(entity), which ends with scanner.next();
\* and a default branch that returns the entity instead
CommonReturns(f, c) == Ret(f.entity)
Common(f, c) == Read([f EXCEPT !.entity = checkCommonEntityProperties(@, c)])
\* entity.k = curr.value; curr = scanner.next()
Field(f, k, v) == Read([f EXCEPT !.entity = Put(@, k, v)])

(* parsePoint, lines 858-879 *)
PointFrame(c) ==
    [fn |-> "parsePoint", pc |-> "start", point |-> [x |-> c.value],
     code |-> NumAdd(c.code, 10)]

parsePoint(f, c) ==
    CASE f.pc = "start" -> Read(At_(f, "y"))
      [] f.pc = "y" ->
            IF c.code # f.code \/ IsNaN(c.code)
            THEN Fail("Expected code for point value")
            ELSE Read([f EXCEPT !.pc = "z", !.point = Put(@, "y", c.value),
                                !.code = NumAdd(@, 10)])
      [] f.pc = "z" ->
            IF c.code # f.code \/ IsNaN(c.code)
            THEN Ret(f.point)
            ELSE Read([f EXCEPT !.pc = "end", !.point = Put(@, "z", c.value)])
      [] f.pc = "end" -> Ret(f.point)

(* parsePolylineVertices, lines 881-900 *)
PolylineVerticesFrame(n) ==
    [fn |-> "parsePolylineVertices", pc |-> "start", n |-> n, i |-> 0,
     vertices |-> <<>>, vertex |-> Undefined]

parsePolylineVertices(f, c) ==
    CASE f.pc = "start" ->
            IF ~Truthy(f.n) \/ NumLe(f.n, 0)
            THEN Fail("n must be greater than 0 verticies")
            ELSE Goto(At_(f, "loop"))
      [] f.pc = "loop" ->
            IF NumLt(Num(f.i), f.n) THEN Call(At_(f, "vertex"), PointFrame(c))
            ELSE Ret(f.vertices)
      [] f.pc = "bulge" ->
            IF c.code = Num(42) /\ c.value # Num(0)
            THEN Read([f EXCEPT !.pc = "loop", !.i = @ + 1,
                                !.vertices = Append(@, Put(f.vertex, "bulge", c.value))])
            ELSE Goto([f EXCEPT !.pc = "loop", !.i = @ + 1,
                                !.vertices = Append(@, f.vertex)])

parsePolylineVerticesResume(f, v) == [f EXCEPT !.pc = "bulge", !.vertex = v]

(* The entity routines.  A call whose result is assigned to entity.k leaves *)
(* the routine at the place k until the call returns.                     *)
\* entity.k = parsePoint()
PointOf(f, k, c) == Call(At_(f, k), PointFrame(c))
\* entity.k = v, the assignment made when the call left at the place k returns
EntityResume(f, v) == [f EXCEPT !.pc = "loop", !.entity = Put(@, f.pc, v)]

(* parseLWPOLYLINE, lines 908-933 *)
parseLWPOLYLINE(f, c) ==
    CASE f.pc = "start" -> Read(At_(f, "loop"))
      [] f.pc = "loop" ->
            IF c.code = Num(0) THEN Ret(f.entity)
            ELSE IF c.code = Num(70) THEN Field(f, "shape", Bool(c.value = Num(1)))
            ELSE IF c.code = Num(90) THEN Read([f EXCEPT !.numberOfVertices = c.value])
            ELSE IF c.code = Num(10)
            THEN Call(At_(f, "vertices"), PolylineVerticesFrame(f.numberOfVertices))
            ELSE Common(f, c)

(* parseLINE, lines 941-957 *)
parseLINE(f, c) ==
    CASE f.pc = "start" -> Read(At_(f, "loop"))
      [] f.pc = "loop" ->
            IF c.code = Num(0) THEN Ret(f.entity)
            ELSE IF c.code = Num(10)
            THEN Call(At_(f, "vertices"), PolylineVerticesFrame(Num(2)))
            ELSE Common(f, c)

(* parseCIRCLE, lines 963-997.  An angle in radians is kept as the number *)
(* of degrees it was made from: [deg |-> d] is Math.PI / 180 * d.          *)
Radians(d) == IF IsNum(d) THEN [deg |-> d] ELSE NaN
IsRadians(v) == DOMAIN v = {"deg"}
\* a < b, a + 2 * Math.PI - b and a - b for an angle a and a value b
AngleLt(a, b) == IsRadians(a) /\ IsRadians(b) /\ NumLt(a.deg, b.deg)
AngleSub(a, b) ==
    IF IsRadians(a) /\ IsRadians(b) THEN Radians(NumSub(a.deg, b.deg)) ELSE NaN
AngleTurnSub(a, b) ==
    IF IsRadians(a) /\ IsRadians(b)
    THEN Radians(NumSub(NumAdd(a.deg, 360), b.deg)) ELSE NaN

parseCIRCLE(f, c) ==
    CASE f.pc = "start" -> Read(At_(f, "loop"))
      [] f.pc = "loop" ->
            IF c.code = Num(0) THEN Ret(f.entity)
            ELSE IF c.code = Num(10) THEN PointOf(f, "center", c)
            ELSE IF c.code = Num(40) THEN Field(f, "radius", c.value)
            ELSE IF c.code = Num(50) THEN Field(f, "startAngle", Radians(c.value))
            ELSE IF c.code = Num(51)
            THEN LET endAngle == Radians(c.value)
                     startAngle == Get(f.entity, "startAngle")
                     angleLength == IF AngleLt(endAngle, startAngle)
                                    THEN AngleTurnSub(endAngle, startAngle)
                                    ELSE AngleSub(endAngle, startAngle)
                 IN  Read([f EXCEPT !.endAngle = endAngle,
                                    !.entity = Put(Put(@, "angleLength", angleLength),
                                                   "endAngle", endAngle)])
            ELSE Common(f, c)

(* parseTEXT, lines 999-1035 *)
parseTEXT(f, c) ==
    CASE f.pc = "start" -> Read(At_(f, "loop"))
      [] f.pc = "loop" ->
            IF c.code = Num(0) THEN Ret(f.entity)
            ELSE IF c.code = Num(10) THEN PointOf(f, "startPoint", c)
            ELSE IF c.code = Num(11) THEN PointOf(f, "endPoint", c)
            ELSE IF c.code = Num(40) THEN Field(f, "textHeight", c.value)
            ELSE IF c.code = Num(1) THEN Field(f, "text", c.value)
            ELSE IF c.code = Num(72) THEN Field(f, "halign", c.value)
            ELSE IF c.code = Num(73) THEN Field(f, "valign", c.value)
            ELSE Common(f, c)

(* parseDIMENSION, lines 1037-1078 *)
parseDIMENSION(f, c) ==
    CASE f.pc = "start" -> Read(At_(f, "loop"))
      [] f.pc = "loop" ->
            IF c.code = Num(0) THEN Ret(f.entity)
            ELSE IF c.code = Num(2) THEN Field(f, "block", c.value)
            ELSE IF c.code = Num(10) THEN PointOf(f, "anchorPoint", c)
            ELSE IF c.code = Num(11) THEN PointOf(f, "middleOfText", c)
            ELSE IF c.code = Num(71) THEN Field(f, "attachmentPoint", c.value)
            ELSE IF c.code = Num(42) THEN Field(f, "actualMeasurement", c.value)
            ELSE IF c.code = Num(1) THEN Field(f, "text", c.value)
            ELSE IF c.code = Num(50) THEN Field(f, "angle", c.value)
            ELSE Common(f, c)

(* parseSOLID, lines 1080-1111 *)
parseSOLID(f, c) ==
    CASE f.pc = "start" -> Read(At_(f, "loop"))
      [] f.pc = "loop" ->
            IF c.code = Num(0) THEN Ret(f.entity)
            ELSE IF c.code = Num(10) THEN PointOf(f, "0", c)
            ELSE IF c.code = Num(11) THEN PointOf(f, "1", c)
            ELSE IF c.code = Num(12) THEN PointOf(f, "2", c)
            ELSE IF c.code = Num(13) THEN PointOf(f, "3", c)
            ELSE IF c.code = Num(210) THEN PointOf(f, "extrusionDirection", c)
            ELSE Common(f, c)

\* entity.points[i] = v for the places 0 to 3, entity.extrusionDirection = v
parseSOLIDResume(f, v) ==
    IF f.pc = "extrusionDirection" THEN EntityResume(f, v)
    ELSE [f EXCEPT !.pc = "loop", !.entity = Put(@, "points", Put(@.points, f.pc, v))]

(* parsePOINT, lines 1113-1137 *)
parsePOINT(f, c) ==
    CASE f.pc = "start" -> Read(At_(f, "loop"))
      [] f.pc = "loop" ->
            IF c.code = Num(0) THEN Ret(f.entity)
            ELSE IF c.code = Num(10) THEN PointOf(f, "position", c)
            ELSE IF c.code = Num(39)
            THEN Goto([f EXCEPT !.entity = Put(@, "thickness", c.value)])
            ELSE IF c.code = Num(210) THEN PointOf(f, "extrusionDirection", c)
            ELSE Common(f, c)

-----------------------------------------------------------------------------
(* Spec: parseSync(source) on a file of at most MaxLines lines.              *)
(*                                                                           *)
(* The scanner reads the lines once, in order, two by two, so the two lines  *)
(* of a group are chosen when next() reads them; only the number of lines is *)
(* fixed from the start.  A family of files (kind) gives the groups a file   *)
(* begins with (prefix), the groups that may follow (alphabet) and the       *)
(* largest number of lines (lines); a family of complete files also gives    *)
(* the groups its files end with (closing).                                  *)

MaxLines == 20
SectionsLines == 14
HeaderLines == 14
LayersLines == 18
LineTypesLines == 18
BlocksLines == 14
PolylineLines == 16
CircleLines == 12
TextLines == 12
SolidLines == 14
PointLines == 12
LayerTableLines == 24
BlockEntitiesLines == 26
VerticesLines == 24
LineEndsLines == 22
ArcLines == 14
DrawingLines == 58
TwoHeadersLines == 22

Section(name) == << <<"0", "SECTION">>, <<"2", name>> >>
Table(name) == Section("TABLES") \o << <<"0", "TABLE">>, <<"2", name>> >>
SectionEnd == << <<"0", "ENDSEC">>, <<"0", "EOF">> >>
TableEnd == << <<"0", "ENDTAB">> >> \o SectionEnd

\* A drawing with a header variable, a layer, a line type and a line.
DrawingHeader == << <<"9", "$ACADVER">>, <<"1", "AC1015">>, <<"0", "ENDSEC">> >>
DrawingTables ==
    << <<"0", "TABLE">>, <<"2", "LAYER">>, <<"0", "LAYER">>, <<"2", "0">>, <<"62", "7">>,
       <<"0", "ENDTAB">>,
       <<"0", "TABLE">>, <<"2", "LTYPE">>, <<"0", "LTYPE">>, <<"2", "CONTINUOUS">>,
       <<"0", "ENDTAB">>, <<"0", "ENDSEC">> >>
DrawingEntities ==
    << <<"0", "LINE">>, <<"8", "0">>, <<"10", "0">>, <<"20", "0">>, <<"11", "10">>,
       <<"21", "0">>, <<"0", "ENDSEC">> >>
Drawing ==
    Section("HEADER") \o DrawingHeader \o Section("TABLES") \o DrawingTables
        \o Section("ENTITIES") \o DrawingEntities \o << <<"0", "EOF">> >>

Files ==
    [sections |->
        [prefix |-> <<>>, lines |-> SectionsLines, closing |-> <<>>,
         alphabet |-> {<<"0", "SECTION">>, <<"2", "HEADER">>, <<"2", "OBJECTS">>,
                       <<"2", "EOF">>, <<"9", "$A">>, <<"290", "x">>,
                       <<"0", "ENDSEC">>, <<"0", "EOF">>}],
     header |->
        [prefix |-> Section("HEADER"), lines |-> HeaderLines, closing |-> <<>>,
         alphabet |-> {<<"9", "$A">>, <<"9", "$B">>, <<"10", "1">>, <<"20", "2">>,
                       <<"1", "v">>, <<"0", "ENDSEC">>, <<"0", "EOF">>}],
     layers |->
        [prefix |-> Table("LAYER"), lines |-> LayersLines, closing |-> <<>>,
         alphabet |-> {<<"0", "LAYER">>, <<"2", "L">>, <<"62", "-1">>, <<"70", "1">>,
                       <<"0", "VPORT">>, <<"0", "ENDTAB">>, <<"0", "ENDSEC">>,
                       <<"0", "EOF">>}],
     lineTypes |->
        [prefix |-> Table("LTYPE"), lines |-> LineTypesLines, closing |-> <<>>,
         alphabet |-> {<<"0", "LTYPE">>, <<"2", "D">>, <<"73", "1">>, <<"49", "0.5">>,
                       <<"70", "1">>, <<"0", "ENDTAB">>, <<"0", "ENDSEC">>,
                       <<"0", "EOF">>}],
     blocks |->
        [prefix |-> Section("BLOCKS"), lines |-> BlocksLines, closing |-> <<>>,
         alphabet |-> {<<"0", "BLOCK">>, <<"2", "B">>, <<"8", "L">>, <<"0", "POINT">>,
                       <<"0", "ENDBLK">>, <<"0", "ENDSEC">>, <<"0", "EOF">>}],
     line |->
        [prefix |-> Section("ENTITIES"), lines |-> MaxLines, closing |-> <<>>,
         alphabet |-> {<<"0", "LINE">>, <<"10", "5">>, <<"20", "3">>,
                       <<"0", "ENDSEC">>, <<"0", "EOF">>}],
     polyline |->
        [prefix |-> Section("ENTITIES") \o << <<"0", "LWPOLYLINE">> >>,
         lines |-> PolylineLines, closing |-> <<>>,
         alphabet |-> {<<"90", "1">>, <<"70", "1">>, <<"10", "5">>, <<"20", "3">>,
                       <<"42", "0.5">>, <<"42", "0">>, <<"0", "ENDSEC">>,
                       <<"0", "EOF">>}],
     circle |->
        [prefix |-> Section("ENTITIES"), lines |-> CircleLines, closing |-> <<>>,
         alphabet |-> {<<"0", "CIRCLE">>, <<"0", "ARC">>, <<"40", "2.5">>,
                       <<"50", "90">>, <<"51", "45">>, <<"10", "5">>, <<"20", "3">>,
                       <<"0", "ENDSEC">>, <<"0", "EOF">>}],
     text |->
        [prefix |-> Section("ENTITIES"), lines |-> TextLines, closing |-> <<>>,
         alphabet |-> {<<"0", "TEXT">>, <<"0", "DIMENSION">>, <<"0", "MTEXT">>,
                       <<"1", "t">>, <<"11", "5">>, <<"21", "3">>, <<"8", "L">>,
                       <<"0", "ENDSEC">>, <<"0", "EOF">>}],
     solid |->
        [prefix |-> Section("ENTITIES") \o << <<"0", "SOLID">> >>, lines |-> SolidLines, closing |-> <<>>,
         alphabet |-> {<<"10", "5">>, <<"20", "3">>, <<"13", "1">>, <<"23", "1">>,
                       <<"62", "7">>, <<"0", "INSERT">>, <<"0", "ENDSEC">>,
                       <<"0", "EOF">>}],
     point |->
        [prefix |-> Section("ENTITIES") \o << <<"0", "POINT">> >>, lines |-> PointLines, closing |-> <<>>,
         alphabet |-> {<<"10", "5">>, <<"20", "3">>, <<"30", "0">>, <<"39", "1">>,
                       <<"210", "0">>, <<"0", "ENDSEC">>, <<"0", "EOF">>}],
     layerTable |->
        [prefix |-> Table("LAYER") \o << <<"0", "LAYER">> >>, lines |-> LayerTableLines,
         closing |-> TableEnd,
         alphabet |-> {<<"0", "LAYER">>, <<"2", "A">>, <<"2", "B">>, <<"62", "-3">>,
                       <<"62", "3">>, <<"62", "0">>}],
     blockEntities |->
        [prefix |-> Section("BLOCKS") \o
                    << <<"0", "BLOCK">>, <<"2", "A">>, <<"0", "LINE">>, <<"10", "5">>,
                       <<"20", "3">> >>,
         lines |-> BlockEntitiesLines, closing |-> SectionEnd,
         alphabet |-> {<<"0", "POINT">>, <<"10", "5">>, <<"11", "7">>, <<"21", "1">>,
                       <<"0", "ENDBLK">>, <<"0", "BLOCK">>, <<"2", "B">>}],
     vertices |->
        [prefix |-> Section("ENTITIES") \o
                    << <<"0", "LWPOLYLINE">>, <<"90", "2">>, <<"10", "5">>, <<"20", "3">> >>,
         lines |-> VerticesLines, closing |-> SectionEnd,
         alphabet |-> {<<"42", "0">>, <<"42", "0.5">>, <<"10", "7">>, <<"20", "1">>,
                       <<"70", "0">>, <<"70", "1">>, <<"70", "128">>, <<"70", "129">>}],
     lineEnds |->
        [prefix |-> Section("ENTITIES") \o
                    << <<"0", "LINE">>, <<"10", "5">>, <<"20", "3">> >>,
         lines |-> LineEndsLines, closing |-> SectionEnd,
         alphabet |-> {<<"30", "0">>, <<"11", "7">>, <<"21", "1">>, <<"31", "0">>,
                       <<"8", "L">>}],
     arc |->
        [prefix |-> Section("ENTITIES") \o << <<"0", "ARC">> >>,
         lines |-> ArcLines, closing |-> SectionEnd,
         alphabet |-> {<<"50", "350">>, <<"51", "10">>, <<"50", "0">>, <<"51", "360">>}],
     drawing |->
        [prefix |-> Drawing, lines |-> DrawingLines, closing |-> <<>>, alphabet |-> {}],
     twoHeaders |->
        [prefix |-> Section("HEADER") \o << <<"9", "$A">>, <<"1", "v">>, <<"0", "ENDSEC">> >>
                    \o Section("HEADER"),
         lines |-> TwoHeadersLines, closing |-> SectionEnd,
         alphabet |-> {<<"9", "$A">>, <<"9", "$B">>, <<"1", "w">>}]]

Kinds == DOMAIN Files
NoData == <<>>

\* The pairs of lines the file may hold at the scanner's pointer p: those of
\* the scanner's array when the text read was split into one, else those of a
\* file of the family k.
GroupsAt(k, p) ==
    LET toEnd == length \div 2 - p \div 2
    IN  IF _data # NoData THEN {<<_data[p + 1], _data[p + 2]>>}
        ELSE IF p \div 2 < Len(Files[k].prefix) THEN {Files[k].prefix[p \div 2 + 1]}
        ELSE IF toEnd \in 1 .. Len(Files[k].closing)
        THEN {Files[k].closing[Len(Files[k].closing) - toEnd + 1]}
        ELSE Files[k].alphabet

\* The array that holds the pair of lines g at the JavaScript indexes p, p + 1.
Window(p, g) == [i \in {p + 1, p + 2} |-> IF i = p + 1 THEN g[1] ELSE g[2]]

NoGroup == Undefined
NoCall == [phase |-> "none"]
Idle == [op |-> "none"]
Top == stack[Len(stack)]
Caller == stack[Len(stack) - 1]
Below(k) == SubSeq(stack, 1, Len(stack) - k)
\* The part of dxf parseAll assigns when the call it waits for, at the place
\* of the frame f, returns; and that part for the section being read.
PartOf(f) == IF f.pc = "entitiesCall" THEN "entities" ELSE f.pc
Part == PartOf(stack[1])

\* The thirteen entity types of the specification's entity sub-parsers.
SpecEntityTypes ==
    {"LINE", "LWPOLYLINE", "POLYLINE", "CIRCLE", "ARC", "TEXT", "MTEXT",
     "DIMENSION", "SOLID", "POINT", "INSERT", "SPLINE", "ELLIPSE"}
IsEntityTag(g) == g.code = Num(0) /\ g.value \in {Str(x) : x \in SpecEntityTypes}

ParserUnused ==
    /\ curr = NoGroup /\ dxf = EmptyObject /\ stack = <<>> /\ status = "none"
    /\ error = "" /\ kind = "none" /\ entityTags = <<>> /\ sectionOpen = FALSE
    /\ skipping = FALSE /\ log = <<>> /\ sectionGroups = EmptyObject

ScannerUnused ==
    /\ _data = NoData /\ length = 0 /\ _pointer = 0 /\ _eof = FALSE
    /\ call = Idle /\ sawEof = FALSE /\ returned = 0

NoCaller == [by |-> "none"]
StreamUnused ==
    /\ dxfString = <<>> /\ emitted = <<>> /\ done = <<>> /\ uncaught = <<>>
    /\ caller = NoCaller /\ parses = <<>>
LoaderUnused == parsedDxfData = Undefined /\ _textPromises = <<>> /\ loads = <<>>
HostUnused == StreamUnused /\ LoaderUnused

\* parseSync(source) is called with a string of 1 to Files[kind].lines lines.
Init ==
    /\ HostUnused
    /\ kind \in Kinds
    /\ length \in 1 .. Files[kind].lines
    /\ _pointer = 0 /\ _eof = FALSE
    /\ curr = NoGroup /\ dxf = EmptyObject /\ stack = <<>> /\ status = "called"
    /\ error = "" /\ entityTags = <<>> /\ sectionOpen = FALSE /\ skipping = FALSE
    /\ log = <<>> /\ sectionGroups = EmptyObject
    /\ pgv = NoCall /\ _data = NoData /\ call = Idle /\ sawEof = FALSE /\ returned = 0

\* _parse up to the call of parseAll, lines 477-482 and 1139: the scanner is
\* made over the lines and a file without a first pair of lines is refused.
Parse ==
    /\ status = "called"
    /\ IF ~hasNext(This).ret
       THEN /\ status' = "thrown" /\ error' = "Empty file"
            /\ UNCHANGED stack
       ELSE /\ status' = "running" /\ stack' = <<ParseAllFrame>>
            /\ UNCHANGED error
    /\ UNCHANGED <<hostVars, pgv, scannerVars, curr, dxf, kind, entityTags, sectionOpen, skipping, log,
                 sectionGroups>>

\* The frame of the caller f once the routine it called has returned v.
Resume(f, v) ==
    CASE f.fn = "parseAll" -> parseAllResume(f, v, dxf).frame
      [] f.fn = "parseBlocks" -> parseBlocksResume(f, v)
      [] f.fn = "parseBlock" -> parseBlockResume(f, v)
      [] f.fn = "parseTables" -> parseTablesResume(f, v)
      [] f.fn = "parseLayerTable" -> parseLayerTableResume(f, v)
      [] f.fn = "parseLineTypeTable" -> parseLineTypeTableResume(f, v)
      [] f.fn = "parseEntities" -> parseEntitiesResume(f, v)
      [] f.fn = "parsePolylineVertices" -> parsePolylineVerticesResume(f, v)
      [] f.fn = "parseSOLID" -> parseSOLIDResume(f, v)
      [] OTHER -> EntityResume(f, v)

\* The running routine goes on as the frame f after curr = scanner.next().
ReadStep(f) ==
    /\ status' = "reading"
    /\ stack' = Append(Below(1), f)
    /\ UNCHANGED <<_pointer, _eof, curr, dxf, error, entityTags, sectionOpen, skipping,
                 sectionGroups>>

\* curr = scanner.next() on a pair of lines of the file; an error of next()
\* ends the parse.
ScannerNext ==
    /\ status = "reading"
    /\ \E g \in (IF hasNext(This).ret THEN GroupsAt(kind, _pointer) ELSE {<<"", "">>}) :
         LET r == next(This, Window(_pointer, g))
         IN  /\ _pointer' = r.this._pointer
             /\ _eof' = r.this._eof
             /\ IF Throws(r.out)
                THEN /\ status' = "thrown" /\ error' = r.out.throw
                     /\ UNCHANGED <<curr, entityTags, sectionOpen, skipping, sectionGroups>>
                ELSE /\ curr' = r.out.value
                     /\ status' = "running"
                     /\ entityTags' = IF sectionOpen /\ IsEntityTag(curr')
                                      THEN Append(entityTags, curr'.value.s)
                                      ELSE entityTags
                     /\ sectionOpen' = (sectionOpen /\ ~groupIs(curr', 0, "ENDSEC"))
                     /\ skipping' = (skipping /\ ~groupIs(curr', 0, "ENDSEC"))
                     /\ sectionGroups' =
                            IF Len(stack) > 1
                            THEN Put(sectionGroups, Part,
                                     Append(sectionGroups[Part], curr'))
                            ELSE sectionGroups
                     /\ UNCHANGED error
    /\ UNCHANGED <<hostVars, pgv, _data, length, call, sawEof, returned, kind, dxf, stack, log>>

\* A loop iteration that reads nothing: the routine goes on as the frame f.
\* When f is the frame it already had, the iteration changed nothing and the
\* routine repeats it for ever.
GotoStep(f) ==
    /\ IF f = Top
       THEN status' = "looping" /\ UNCHANGED stack
       ELSE stack' = Append(Below(1), f) /\ UNCHANGED status
    /\ skipping' = (skipping \/ Top.fn = "parseAll")
    /\ UNCHANGED <<_pointer, _eof, curr, dxf, error, entityTags, sectionOpen, sectionGroups>>

\* The call of the routine whose fresh frame is g; the caller waits as f.
CallStep(f, g) ==
    /\ stack' = Append(Append(Below(1), f), g)
    /\ IF g.fn = "parseEntities" /\ ~g.forBlock
       THEN /\ entityTags' = IF IsEntityTag(curr) THEN <<curr.value.s>> ELSE <<>>
            /\ sectionOpen' = ~groupIs(curr, 0, "ENDSEC")
       ELSE UNCHANGED <<entityTags, sectionOpen>>
    /\ sectionGroups' =
           IF Top.fn # "parseAll" THEN sectionGroups
           ELSE Put(sectionGroups, PartOf(f),
                    IF g.fn = "parseEntities" THEN <<curr>> ELSE <<>>)
    /\ UNCHANGED <<_pointer, _eof, curr, dxf, status, error, skipping>>

\* The running routine returns v: to its caller, or, for parseAll, to _parse,
\* which returns dxf.
ReturnStep(v) ==
    /\ IF Len(stack) = 1
       THEN /\ status' = "returned" /\ stack' = <<>>
            /\ UNCHANGED dxf
       ELSE /\ stack' = Append(Below(2), Resume(Caller, v))
            /\ dxf' = IF Caller.fn = "parseAll" THEN parseAllResume(Caller, v, dxf).dxf
                      ELSE dxf
            /\ UNCHANGED status
    /\ UNCHANGED <<_pointer, _eof, curr, error, entityTags, sectionOpen, skipping,
                 sectionGroups>>

ThrowStep(m) ==
    /\ status' = "thrown" /\ error' = m
    /\ UNCHANGED <<_pointer, _eof, curr, dxf, stack, entityTags, sectionOpen, skipping,
                 sectionGroups>>

\* The routine fn is the one that runs.
Running(fn) == status = "running" /\ Top.fn = fn

\* The running routine does eff.
Do(eff) ==
    /\ CASE eff.kind = "read" -> ReadStep(eff.frame)
         [] eff.kind = "goto" -> GotoStep(eff.frame)
         [] eff.kind = "call" -> CallStep(eff.frame, eff.callee)
         [] eff.kind = "return" -> ReturnStep(eff.value)
         [] eff.kind = "throw" -> ThrowStep(eff.error)
    /\ log' = IF Logs(eff) THEN Append(log, eff.log) ELSE log
    /\ UNCHANGED <<hostVars, pgv, _data, length, call, sawEof, returned, kind>>

ParseAll == Running("parseAll") /\ Do(parseAll(Top, curr, isEOF(This).ret, dxf))
ParseHeader == Running("parseHeader") /\ Do(parseHeader(Top, curr))
ParseBlocks == Running("parseBlocks") /\ Do(parseBlocks(Top, curr))
ParseBlock == Running("parseBlock") /\ Do(parseBlock(Top, curr))
ParseTables == Running("parseTables") /\ Do(parseTables(Top, curr))
ParseLayerTable == Running("parseLayerTable") /\ Do(parseLayerTable(Top, curr))
ParseLineTypeTable == Running("parseLineTypeTable") /\ Do(parseLineTypeTable(Top, curr))
ParseLineTypes == Running("parseLineTypes") /\ Do(parseLineTypes(Top, curr))
ParseLayers == Running("parseLayers") /\ Do(parseLayers(Top, curr))
ParseEntities == Running("parseEntities") /\ Do(parseEntities(Top, curr))
ParsePoint == Running("parsePoint") /\ Do(parsePoint(Top, curr))
ParsePolylineVertices == Running("parsePolylineVertices") /\ Do(parsePolylineVertices(Top, curr))
ParseLWPOLYLINE == Running("parseLWPOLYLINE") /\ Do(parseLWPOLYLINE(Top, curr))
ParseLINE == Running("parseLINE") /\ Do(parseLINE(Top, curr))
ParseCIRCLE == Running("parseCIRCLE") /\ Do(parseCIRCLE(Top, curr))
ParseTEXT == Running("parseTEXT") /\ Do(parseTEXT(Top, curr))
ParseDIMENSION == Running("parseDIMENSION") /\ Do(parseDIMENSION(Top, curr))
ParseSOLID == Running("parseSOLID") /\ Do(parseSOLID(Top, curr))
ParsePOINT == Running("parsePOINT") /\ Do(parsePOINT(Top, curr))

Next ==
    \/ Parse
    \/ ScannerNext
    \/ ParseAll
    \/ ParseHeader
    \/ ParseBlocks
    \/ ParseBlock
    \/ ParseTables
    \/ ParseLayerTable
    \/ ParseLineTypeTable
    \/ ParseLineTypes
    \/ ParseLayers
    \/ ParseEntities
    \/ ParsePoint
    \/ ParsePolylineVertices
    \/ ParseLWPOLYLINE
    \/ ParseLINE
    \/ ParseCIRCLE
    \/ ParseTEXT
    \/ ParseDIMENSION
    \/ ParseSOLID
    \/ ParsePOINT

Spec == Init /\ [][Next]_vars

-----------------------------------------------------------------------------
(* SpecStream: parseStream and parseSync are called on DxfParser instances,  *)
(* which hold no field, and the streams emit 'data', 'end' and 'error' in    *)
(* any order.  JavaScript runs a handler to its end before the next event:   *)
(* while a _parse runs no other action is enabled.                           *)

MaxStreams == 2
MaxData == 2
MaxParses == 1
EOL == "\n"
Chunks == {"0\nSECTION\n2\nHEA", "DER\n9\n$A\n1\nv\n0\nENDSEC\n0\nEOF\n"}
Sources == {Str(""), Undefined}
StreamErrors == {"ECONNRESET"}

RECURSIVE IndexOf(_, _, _)
IndexOf(str, c, i) ==
    IF i > Len(str) THEN 0
    ELSE IF CharAt(str, i) = c THEN i
    ELSE IndexOf(str, c, i + 1)

\* String.prototype.split on a separator of one character
RECURSIVE Split(_, _)
Split(str, sep) ==
    LET k == IndexOf(str, sep, 1)
    IN  IF k = 0 THEN <<str>>
        ELSE <<SubSeq(str, 1, k - 1)>> \o Split(SubSeq(str, k + 1, Len(str)), sep)

\* One text for every call of parseStream.
SharedCell(s) == 1

\* The closure variable dxfString of the call s of parseStream.
Cell(s) == s

Idling == caller = NoCaller

Emitted(s, event) == Len(SelectSeq(emitted[s], LAMBDA e : e.event = event))

\* _parse(str) up to its first statement that reads the scanner: the routines
\* and the variables scanner, curr and dxf are made anew by each call.
EnterParse(str) ==
    /\ _data' = Split(str, EOL) /\ length' = Len(_data')
    /\ _pointer' = 0 /\ _eof' = FALSE
    /\ curr' = NoGroup /\ dxf' = EmptyObject /\ stack' = <<>> /\ status' = "called"
    /\ error' = "" /\ entityTags' = <<>> /\ sectionOpen' = FALSE /\ skipping' = FALSE
    /\ sectionGroups' = EmptyObject
    /\ UNCHANGED <<call, sawEof, returned, kind>>

LeaveParse ==
    /\ status' = "none" /\ caller' = NoCaller
    /\ UNCHANGED <<scannerVars, curr, dxf, stack, error, kind, entityTags, sectionOpen,
                 skipping, log, sectionGroups>>

InitStream ==
    /\ pgv = NoCall
    /\ ScannerUnused
    /\ ParserUnused
    /\ HostUnused

\* parseStream(stream, done)
ParseStream ==
    /\ Idling /\ Len(emitted) < MaxStreams
    /\ dxfString' = (Cell(Len(emitted) + 1) :> "") @@ dxfString
    /\ emitted' = Append(emitted, <<>>)
    /\ done' = Append(done, <<>>)
    /\ UNCHANGED <<pgv, scannerVars, parserVars, uncaught, caller, parses, loaderVars>>

OnData ==
    /\ Idling
    /\ \E s \in DOMAIN emitted, chunk \in Chunks :
         /\ Emitted(s, "data") < MaxData
         /\ dxfString' = [dxfString EXCEPT ![Cell(s)] = @ \o chunk]
         /\ emitted' = [emitted EXCEPT ![s] = Append(@, [event |-> "data", chunk |-> chunk])]
    /\ UNCHANGED <<pgv, scannerVars, parserVars, done, uncaught, caller, parses, loaderVars>>

\* onEnd up to the return of _parse
OnEnd ==
    /\ Idling
    /\ \E s \in DOMAIN emitted :
         /\ Emitted(s, "end") = 0
         /\ emitted' = [emitted EXCEPT ![s] = Append(@, [event |-> "end"])]
         /\ caller' = [by |-> "onEnd", stream |-> s, source |-> Str(dxfString[Cell(s)])]
         /\ EnterParse(dxfString[Cell(s)])
    /\ log' = <<>>
    /\ UNCHANGED <<pgv, dxfString, done, uncaught, parses, loaderVars>>

\* onEnd from the return of _parse: done(null, dxf)
OnEndReturns ==
    /\ caller.by = "onEnd" /\ status = "returned"
    /\ done' = [done EXCEPT ![caller.stream] = Append(@, [err |-> Null, dxf |-> dxf])]
    /\ parses' = Append(parses, [source |-> caller.source, out |-> Return(dxf)])
    /\ LeaveParse
    /\ UNCHANGED <<pgv, dxfString, emitted, uncaught, loaderVars>>

\* The error of _parse leaves onEnd, which has no try statement.
OnEndThrows ==
    /\ caller.by = "onEnd" /\ status = "thrown"
    /\ uncaught' = Append(uncaught, error)
    /\ parses' = Append(parses, [source |-> caller.source, out |-> Throw(error)])
    /\ LeaveParse
    /\ UNCHANGED <<pgv, dxfString, emitted, done, loaderVars>>

OnError ==
    /\ Idling
    /\ \E s \in DOMAIN emitted, err \in StreamErrors :
         /\ Emitted(s, "error") = 0
         /\ emitted' = [emitted EXCEPT ![s] = Append(@, [event |-> "error", err |-> err])]
         /\ done' = [done EXCEPT ![s] = Append(@, [err |-> Str(err)])]
    /\ UNCHANGED <<pgv, scannerVars, parserVars, dxfString, uncaught, caller, parses,
                 loaderVars>>

\* parseSync(source) up to the return of _parse; a source that is no string
\* is reported on the console and gives undefined.
CallParseSync ==
    /\ Idling /\ Len(parses) < MaxParses
    /\ \E source \in Sources :
         IF IsStr(source)
         THEN /\ caller' = [by |-> "parseSync", source |-> source]
              /\ EnterParse(source.s)
              /\ log' = <<>>
              /\ UNCHANGED parses
         ELSE /\ log' = <<"Cannot read dxf source of type undefined">>
              /\ parses' = Append(parses, [source |-> source, out |-> Return(Undefined)])
              /\ UNCHANGED <<scannerVars, curr, dxf, stack, status, error, kind, entityTags,
                           sectionOpen, skipping, sectionGroups, caller>>
    /\ UNCHANGED <<pgv, dxfString, emitted, done, uncaught, loaderVars>>

\* parseSync gives its caller what _parse returned or threw.
ParseSyncEnds ==
    /\ caller.by = "parseSync" /\ status \in {"returned", "thrown"}
    /\ parses' = Append(parses, [source |-> caller.source,
                                 out |-> IF status = "returned" THEN Return(dxf)
                                         ELSE Throw(error)])
    /\ LeaveParse
    /\ UNCHANGED <<pgv, dxfString, emitted, done, uncaught, loaderVars>>

NextStream ==
    \/ ParseStream
    \/ OnData
    \/ OnEnd
    \/ OnEndReturns
    \/ OnEndThrows
    \/ OnError
    \/ CallParseSync
    \/ ParseSyncEnds
    \/ Parse
    \/ ScannerNext
    \/ ParseAll
    \/ ParseHeader

SpecStream == InitStream /\ [][NextStream]_vars

-----------------------------------------------------------------------------
(* Properties of parseStream and parseSync (SpecStream) *)

\* The text of the 'data' events the stream s emitted before its 'end'.
RECURSIVE TextOf(_)
TextOf(events) ==
    IF events = <<>> \/ Head(events).event = "end" THEN ""
    ELSE IF Head(events).event = "data" THEN Head(events).chunk \o TextOf(Tail(events))
    ELSE TextOf(Tail(events))

\* The handlers of the events s has emitted have all run to their end.
Settled(s) == ~(caller.by = "onEnd" /\ caller.stream = s)
Ended(s) == Emitted(s, "end") = 1 /\ Settled(s)

HeaderText == "0\nSECTION\n2\nHEADER\n9\n$A\n1\nv\n0\nENDSEC\n0\nEOF\n"
HeaderDocument == Put(EmptyObject, "header", Put(EmptyObject, "$A", Str("v")))

\* C25: the outcome of a parse depends on the text parsed alone: two parses
\* of equal texts have equal outcomes, whatever was parsed before and
\* whichever call made them, and the parse a stream's 'end' starts is the
\* parse of the text of that stream's own 'data' events, in their order,
\* whose document is the one given to that stream's callback.
C25_DocumentOfTextAlone ==
    /\ \A i, j \in DOMAIN parses :
          parses[i].source = parses[j].source => parses[i].out = parses[j].out
    /\ \A i \in DOMAIN parses :
          parses[i].source = Str(HeaderText) => parses[i].out = Return(HeaderDocument)
    /\ \A s \in DOMAIN emitted :
          Ended(s) =>
              \E i \in DOMAIN parses :
                  /\ parses[i].source = Str(TextOf(emitted[s]))
                  /\ \A k \in DOMAIN done[s] :
                        done[s][k].err = Null => parses[i].out = Return(done[s][k].dxf)

\* Two streams whose 'data' events carried the same text have both ended and
\* both callbacks were given the document of that text, after a parse of
\* another text that failed.
C25_SameTextTwice ==
    /\ Len(parses) = 3
    /\ Throws(parses[1].out)
    /\ \A s \in {1, 2} :
          /\ s \in DOMAIN emitted /\ Ended(s)
          /\ TextOf(emitted[s]) = HeaderText
          /\ \E k \in DOMAIN done[s] : done[s][k] = [err |-> Null, dxf |-> HeaderDocument]

\* C29: done is invoked at most once for a stream, and exactly once when the
\* stream has emitted 'end' or 'error' and the handler has run: with the
\* document after an 'end' whose text parses, with the error otherwise.
C29_DoneExactlyOnce ==
    \A s \in DOMAIN done :
        /\ Len(done[s]) <= 1
        /\ (Settled(s) /\ Emitted(s, "end") + Emitted(s, "error") > 0) => Len(done[s]) = 1

\* An 'end' whose text does not parse leaves done uninvoked.
C29_DoneWhenParseFails ==
    \A s \in DOMAIN done :
        (Ended(s) /\ Emitted(s, "error") = 0) => Len(done[s]) = 1

\* done is invoked at most once for a stream.
C29_DoneAtMostOnce == \A s \in DOMAIN done : Len(done[s]) <= 1

-----------------------------------------------------------------------------
(* The adapter (src/src/index.js, TextLoader.js, utils.js): DxfLoader.load   *)
(* draws the entities of a document.  A three.js object is a record of its  *)
(* type and of what the adapter gave it; a point of an arc, whose            *)
(* coordinates come from Math.cos and Math.sin, is a record of the arc and   *)
(* of its place on it.  The documents hold entities of the types LINE,       *)
(* LWPOLYLINE, POINT, INSERT, DIMENSION, TEXT, MTEXT and 3DFACE; the text of *)
(* an MTEXT has no formatting code.                                          *)

MaxEntities == 2
MaxVertices == 3
MaxLoads == 2

NoError == ""
Drew(obj, syncs) == [obj |-> obj, syncs |-> syncs, error |-> NoError]
Threw(msg, syncs) == [obj |-> Undefined, syncs |-> syncs, error |-> msg]

\* o?.[k]
Chain(o, k) == IF IsNullish(o) THEN Undefined ELSE Get(o, k)

\* getColor(entity, data) of utils.js
getColor(entity, data) ==
    LET color == IF Truthy(Get(entity, "color")) THEN entity.color
                 ELSE Chain(Chain(Chain(Chain(Get(data, "tables"), "layer"), "layers"),
                                  Key(Get(entity, "layer"))), "color")
    IN  IF IsNullish(color) THEN Num(0) ELSE color

Vector3(x, y, z) == [x |-> x, y |-> y, z |-> z]
Half == [n |-> 5, e |-> 1]

\* Math.ceil(angle / (Math.PI / 18)) for angle = 4 * Math.atan(bulge)
TenDegreeSteps(bulge) == CASE bulge = Half -> Num(11)

\* getBulgeCurvePoints(startPoint, endPoint, bulge) without segments
getBulgeCurvePoints(startPoint, endPoint, bulge) ==
    LET p0 == [x |-> startPoint.x, y |-> startPoint.y]
        p1 == IF IsNullish(endPoint) THEN [x |-> Num(1), y |-> Num(0)]
              ELSE [x |-> endPoint.x, y |-> endPoint.y]
        steps == Abs(TenDegreeSteps(bulge)).n
        segments == IF steps > 6 THEN steps ELSE 6
    IN  <<Vector3(p0.x, p0.y, Num(0))>> \o
        [i \in 1 .. segments - 1 |->
            [arc |-> [p0 |-> p0, p1 |-> p1, bulge |-> bulge], i |-> i, segments |-> segments]]

\* The loop of drawLine from the vertex i on
RECURSIVE LinePoints(_, _, _)
LinePoints(vertices, i, points) ==
    IF i > Len(vertices) THEN points
    ELSE IF Truthy(Get(vertices[i], "bulge"))
    THEN LET endPoint == IF i + 1 <= Len(vertices) THEN vertices[i + 1]
                         ELSE IF points = <<>> THEN Undefined ELSE points[1]
         IN  LinePoints(vertices, i + 1,
                        points \o getBulgeCurvePoints(vertices[i], endPoint, vertices[i].bulge))
    ELSE LinePoints(vertices, i + 1,
                    Append(points, Vector3(vertices[i].x, vertices[i].y, Num(0))))

\* drawLine without its closing point
PointsLeftOpen(entity, points) == points

\* if (entity.shape) points.push(points[0])
ClosePoints(entity, points) ==
    IF Truthy(Get(entity, "shape"))
    THEN Append(points, IF points = <<>> THEN Undefined ELSE points[1])
    ELSE points

drawLine(entity, data) ==
    IF ~Has(entity, "vertices") THEN Drew(Undefined, 0)
    ELSE LET points == ClosePoints(entity, LinePoints(entity.vertices, 1, <<>>))
             color == getColor(entity, data)
             named == Truthy(Get(entity, "lineType"))
             tables == Get(data, "tables")
             lineType == IF named THEN Get(tables.lineType.lineTypes, Key(entity.lineType))
                         ELSE Undefined
             dashed == /\ ~IsNullish(lineType)
                       /\ Has(lineType, "pattern")
                       /\ Len(lineType.pattern) # 0
         IN  IF named /\ IsNullish(tables)
             THEN Threw("TypeError: Cannot read properties of undefined (reading 'lineType')", 0)
             ELSE IF named /\ ~Has(tables, "lineType")
             THEN Threw("TypeError: Cannot read properties of undefined (reading 'lineTypes')", 0)
             ELSE Drew([type |-> "Line", points |-> points,
                        material |-> [type |-> IF dashed THEN "LineDashedMaterial"
                                               ELSE "LineBasicMaterial",
                                      color |-> color]], 0)

drawPoint(entity, data) ==
    Drew([type |-> "Points", position |-> entity.position,
          material |-> [type |-> "PointsMaterial", color |-> getColor(entity, data)]], 0)

\* DxfTextLoader.drawText: the Text and one promise of its sync
drawText(entity, data) ==
    Drew([type |-> "Text", text |-> entity.text, position |-> entity.startPoint,
          color |-> getColor(entity, data)], 1)

\* DxfTextLoader.drawMtext with _createTextForScene
drawMtext(entity, data) ==
    IF ~Truthy(entity.text) THEN Drew(Null, 0)
    ELSE IF ~(IsNum(Get(entity, "attachmentPoint")) /\ entity.attachmentPoint.n \in 1 .. 9
              /\ entity.attachmentPoint.e = 0)
    THEN Drew(Null, 0)
    ELSE Drew([type |-> "Object3D",
               children |-> <<[type |-> "Text", text |-> entity.text,
                               position |-> entity.position,
                               color |-> getColor(entity, data)]>>], 1)

RECURSIVE drawEntity(_, _)

\* for (...) { obj = drawEntity(entities[i], data); if (obj) objs.push(obj) }
\* from the entity i on: the objects, the promises made and the error thrown
RECURSIVE DrawEach(_, _, _, _)
DrawEach(entities, data, i, acc) ==
    IF i > Len(entities) THEN acc
    ELSE LET r == drawEntity(entities[i], data)
             syncs == acc.syncs + r.syncs
         IN  IF r.error # NoError THEN [objs |-> acc.objs, syncs |-> syncs, error |-> r.error]
             ELSE DrawEach(entities, data, i + 1,
                           [objs |-> IF IsNullish(r.obj) THEN acc.objs
                                     ELSE Append(acc.objs, r.obj),
                            syncs |-> syncs, error |-> NoError])

NoneDrawn == [objs |-> <<>>, syncs |-> 0, error |-> NoError]

Group(entity, block, data) ==
    LET r == DrawEach(block.entities, data, 1, NoneDrawn)
    IN  IF r.error # NoError THEN Threw(r.error, r.syncs)
        ELSE Drew([type |-> "Object3D", children |-> r.objs,
                   position |-> Get(entity, "position")], r.syncs)

drawDimension(entity, data) ==
    LET block == Get(data.blocks, Key(entity.block))
    IN  IF IsNullish(block) \/ ~Has(block, "entities") THEN Drew(Null, 0)
        ELSE Group([type |-> entity.type], block, data)

drawBlock(entity, data) ==
    LET block == Get(data.blocks, Key(entity.name))
    IN  IF IsNullish(block)
        THEN Threw("TypeError: Cannot read properties of undefined (reading 'entities')", 0)
        ELSE IF ~Has(block, "entities") THEN Drew(Null, 0)
        ELSE Group(entity, block, data)

drawEntity(entity, data) ==
    CASE entity.type \in {Str("LWPOLYLINE"), Str("LINE"), Str("POLYLINE")} ->
             drawLine(entity, data)
      [] entity.type = Str("TEXT") -> drawText(entity, data)
      [] entity.type = Str("POINT") -> drawPoint(entity, data)
      [] entity.type = Str("INSERT") -> drawBlock(entity, data)
      [] entity.type = Str("MTEXT") -> drawMtext(entity, data)
      [] entity.type = Str("DIMENSION") -> drawDimension(entity, data)
      [] OTHER -> Drew(Undefined, 0)

-----------------------------------------------------------------------------
(* SpecLoader: load is called up to MaxLoads times on one DxfLoader with a   *)
(* document of at most MaxEntities entities; the sync callbacks of the texts *)
(* fire in any order.                                                        *)

Origin == [x |-> Num(0), y |-> Num(0), z |-> Num(0)]
Corners == <<[x |-> Num(0), y |-> Num(0)], [x |-> Num(4), y |-> Num(0)],
             [x |-> Num(4), y |-> Num(3)]>>
Red == Num(16711680)
Green == Num(65280)

VertexLists ==
    {[i \in 1 .. n |-> IF i \in bulged THEN Put(Corners[i], "bulge", Half) ELSE Corners[i]] :
        n \in 1 .. MaxVertices, bulged \in SUBSET (1 .. MaxVertices)}

Polylines ==
    {[type |-> Str("LWPOLYLINE"), vertices |-> vs, shape |-> Bool(TRUE)] : vs \in VertexLists}
    \cup {[type |-> Str("LWPOLYLINE"), vertices |-> SubSeq(Corners, 1, 2), shape |-> Bool(FALSE)]}

Lines ==
    {[type |-> Str("LINE"), vertices |-> SubSeq(Corners, 1, 2)],
     [type |-> Str("LINE"), vertices |-> SubSeq(Corners, 1, 2), layer |-> Str("L")],
     [type |-> Str("LINE"), vertices |-> SubSeq(Corners, 1, 2), layer |-> Str("L"),
      lineType |-> Str("DASHED")]}

PointEntities ==
    {[type |-> Str("POINT"), position |-> Origin, layer |-> Str("L")],
     [type |-> Str("POINT"), position |-> Origin, layer |-> Str("L"), color |-> Red],
     [type |-> Str("POINT"), position |-> Origin, layer |-> Str("L"), color |-> Num(0)]}

Inserts ==
    {[type |-> Str("INSERT"), name |-> Str(b), position |-> Origin] : b \in {"A", "B"}}
    \cup {[type |-> Str("DIMENSION"), block |-> Str(b)] : b \in {"A", "B"}}

Texts ==
    {[type |-> Str("TEXT"), text |-> Str("t"), startPoint |-> Origin],
     [type |-> Str("MTEXT"), text |-> Str("m"), position |-> Origin, attachmentPoint |-> Num(1)],
     [type |-> Str("MTEXT"), text |-> Str("m"), position |-> Origin],
     [type |-> Str("3DFACE")]}

Entities == Polylines \cup Lines \cup PointEntities \cup Inserts \cup Texts

\* Block A holds a TEXT and a POINT; there is no block B.
BlocksOfDocument ==
    [A |-> [name |-> Str("A"),
            entities |-> <<[type |-> Str("TEXT"), text |-> Str("a"), startPoint |-> Origin],
                           [type |-> Str("POINT"), position |-> Origin]>>]]

LayersOfDocument == [L |-> [name |-> Str("L"), color |-> Green]]
LineTypesOfDocument ==
    [DASHED |-> [name |-> Str("DASHED"), pattern |-> <<Half>>, patternLength |-> Half]]

\* No tables (a file without TABLES section), the tables as parseTables of the
\* bundled parser builds them, and the tables as the adapter reads them.
TablesOfDocument ==
    {Undefined,
     [layers |-> LayersOfDocument, lineTypes |-> LineTypesOfDocument],
     [layer |-> [layers |-> LayersOfDocument],
      lineType |-> [lineTypes |-> LineTypesOfDocument]]}

RECURSIVE ListsUpTo(_, _)
ListsUpTo(S, k) ==
    IF k = 0 THEN {<<>>}
    ELSE ListsUpTo(S, k - 1) \cup
         {Append(l, x) : l \in {l \in ListsUpTo(S, k - 1) : Len(l) = k - 1}, x \in S}

Documents ==
    {IF IsNullish(tables) THEN [entities |-> es, blocks |-> BlocksOfDocument]
     ELSE [entities |-> es, blocks |-> BlocksOfDocument, tables |-> tables] :
        es \in ListsUpTo(Entities, MaxEntities), tables \in TablesOfDocument}

InitLoader ==
    /\ pgv = NoCall
    /\ ScannerUnused
    /\ ParserUnused
    /\ StreamUnused
    /\ parsedDxfData \in Documents
    /\ _textPromises = <<>>
    /\ loads = <<>>

\* load(parsedDxfData, onLoad): the entities are drawn in order; when none
\* throws, onLoad is left to the promise of waitForTextToBeReady(), which is
\* Promise.all of the promises made so far.
Load ==
    /\ Len(loads) < MaxLoads
    /\ LET r == DrawEach(parsedDxfData.entities, parsedDxfData, 1, NoneDrawn)
           promises == _textPromises \o [i \in 1 .. r.syncs |-> "pending"]
       IN  /\ _textPromises' = promises
           /\ loads' = Append(loads,
                  [drawingObjects |-> r.objs, error |-> r.error,
                   texts |-> Len(_textPromises) + 1 .. Len(promises),
                   waits |-> IF r.error = NoError THEN 1 .. Len(promises) ELSE {},
                   onLoad |-> <<>>])
    /\ UNCHANGED <<pgv, scannerVars, parserVars, streamVars, parsedDxfData>>

\* The callback given to sync of a Text: resolve()
Sync ==
    /\ \E i \in DOMAIN _textPromises :
         /\ _textPromises[i] = "pending"
         /\ _textPromises' = [_textPromises EXCEPT ![i] = "resolved"]
    /\ UNCHANGED <<pgv, scannerVars, parserVars, streamVars, parsedDxfData, loads>>

\* The callback given to then: onLoad(drawingObjects)
Then ==
    /\ \E k \in DOMAIN loads :
         /\ loads[k].error = NoError /\ loads[k].onLoad = <<>>
         /\ \A i \in loads[k].waits : _textPromises[i] = "resolved"
         /\ loads' = [loads EXCEPT ![k].onLoad = <<loads[k].drawingObjects>>]
    /\ UNCHANGED <<pgv, scannerVars, parserVars, streamVars, parsedDxfData, _textPromises>>

NextLoader == Load \/ Sync \/ Then

SpecLoader == InitLoader /\ [][NextLoader]_vars

\* The sync callbacks and the callbacks of resolved promises are run.
SpecLoaderFair == SpecLoader /\ WF_vars(Sync) /\ WF_vars(Then)

-----------------------------------------------------------------------------
(* Properties of the adapter (SpecLoader) *)

OfType(seq, types) == SelectSeq(seq, LAMBDA x : x.type \in types)
LineEntities == OfType(parsedDxfData.entities, {Str("LINE"), Str("LWPOLYLINE")})
LineObjects(k) == OfType(loads[k].drawingObjects, {"Line"})
IsClosed(entity) == entity.type = Str("LWPOLYLINE") /\ entity.shape = Bool(TRUE)
IsArcPoint(p) == "arc" \in DOMAIN p
Bulged(vertices) == {i \in DOMAIN vertices : Has(vertices[i], "bulge")}
Succeeded(k) == loads[k].error = NoError

\* C21: the points drawLine builds for an LWPOLYLINE with the closed flag and
\* N >= 1 vertices are a closed loop: they begin at the first vertex, their
\* points that are no points of an arc are the N vertices in input order
\* followed by the first vertex again, and the last point equals the first,
\* whichever vertices carry a bulge.
C21_ClosedLoop ==
    \A k \in DOMAIN loads :
        Succeeded(k) =>
            /\ Len(LineObjects(k)) = Len(LineEntities)
            /\ \A i \in DOMAIN LineEntities :
                  IsClosed(LineEntities[i]) =>
                      LET vs == LineEntities[i].vertices
                          ps == LineObjects(k)[i].points
                          corners == [j \in DOMAIN vs |-> Vector3(vs[j].x, vs[j].y, Num(0))]
                      IN  /\ ps[1] = corners[1]
                          /\ ps[Len(ps)] = ps[1]
                          /\ SelectSeq(ps, LAMBDA q : ~IsArcPoint(q)) = Append(corners, corners[1])

\* A closed LWPOLYLINE of three vertices whose first and last vertex carry a
\* bulge has been drawn.
C21_ClosedLoopWithBulges ==
    \E k \in DOMAIN loads :
        /\ Succeeded(k) /\ Len(LineEntities) = 1 /\ Len(LineObjects(k)) = 1
        /\ IsClosed(LineEntities[1])
        /\ Bulged(LineEntities[1].vertices) = {1, 3}
        /\ Len(LineObjects(k)[1].points) = 24

NamesMissingBlock(entity) ==
    \/ entity.type = Str("INSERT") /\ ~Has(parsedDxfData.blocks, entity.name.s)
    \/ entity.type = Str("DIMENSION") /\ ~Has(parsedDxfData.blocks, entity.block.s)
Remaining == SelectSeq(parsedDxfData.entities, LAMBDA x : ~NamesMissingBlock(x))
DrawnAlone(entities) == DrawEach(entities, parsedDxfData, 1, NoneDrawn)

\* C22: an INSERT or a DIMENSION that names a block absent from blocks does
\* not make load fail and gives no drawing object: when the remaining
\* entities can be drawn, load draws exactly their objects.
C22_MissingBlockSkipped ==
    \A k \in DOMAIN loads :
        DrawnAlone(Remaining).error = NoError =>
            /\ Succeeded(k)
            /\ loads[k].drawingObjects = DrawnAlone(Remaining).objs

\* C22 for DIMENSION alone
C22_MissingDimensionSkipped ==
    \A k \in DOMAIN loads :
        (/\ DrawnAlone(Remaining).error = NoError
         /\ \A i \in DOMAIN parsedDxfData.entities :
               NamesMissingBlock(parsedDxfData.entities[i]) =>
                   parsedDxfData.entities[i].type = Str("DIMENSION")) =>
            /\ Succeeded(k)
            /\ loads[k].drawingObjects = DrawnAlone(Remaining).objs

\* C23: a document without tables is drawn without error, its entities that
\* carry a lineType or a layer included: when no entity names a missing
\* block, load does not fail and draws every LINE and LWPOLYLINE.
C23_DrawnWithoutTables ==
    \A k \in DOMAIN loads :
        (~Has(parsedDxfData, "tables") /\ Remaining = parsedDxfData.entities) =>
            /\ Succeeded(k)
            /\ Len(LineObjects(k)) = Len(LineEntities)

\* C23 for the entities that carry no lineType
C23_DrawnWithoutLineType ==
    \A k \in DOMAIN loads :
        (/\ ~Has(parsedDxfData, "tables") /\ Remaining = parsedDxfData.entities
         /\ \A i \in DOMAIN LineEntities : ~Has(LineEntities[i], "lineType")) =>
            /\ Succeeded(k)
            /\ Len(LineObjects(k)) = Len(LineEntities)

PointsOfDocument == OfType(parsedDxfData.entities, {Str("POINT")})
PointObjects(k) == OfType(loads[k].drawingObjects, {"Points"})
\* The layers as parseTables of the parser stores them: tables.layers
ParserLayers == Chain(Get(parsedDxfData, "tables"), "layers")
AsParserBuilds == ~Has(parsedDxfData, "tables") \/ Has(parsedDxfData.tables, "layers")
ColorByPrecedence(entity) ==
    IF Has(entity, "color") THEN entity.color
    ELSE IF ~IsNullish(Chain(ParserLayers, Key(Get(entity, "layer"))))
    THEN ParserLayers[entity.layer.s].color
    ELSE Num(0)

\* C24: the colour of a drawn entity is the entity's own color, else the color
\* of the layer stored under the entity's layer name in tables.layers as the
\* parser builds it, else black.
C24_ColorPrecedence ==
    \A k \in DOMAIN loads :
        (Succeeded(k) /\ AsParserBuilds) =>
            /\ Len(PointObjects(k)) = Len(PointsOfDocument)
            /\ \A i \in DOMAIN PointsOfDocument :
                  PointObjects(k)[i].material.color = ColorByPrecedence(PointsOfDocument[i])

\* C24 for the entities that have a color of their own or no layer in the tables
C24_OwnColorElseBlack ==
    \A k \in DOMAIN loads :
        (Succeeded(k) /\ AsParserBuilds) =>
            \A i \in DOMAIN PointsOfDocument :
                (Has(PointsOfDocument[i], "color") \/ ~Has(parsedDxfData, "tables")) =>
                    PointObjects(k)[i].material.color = ColorByPrecedence(PointsOfDocument[i])

\* onLoad is never invoked twice for a call, nor before the sync callback of
\* every text the call made has fired, and it is given the objects of the
\* document's entities in their order.
C30_NeverEarly ==
    \A k \in DOMAIN loads :
        /\ Len(loads[k].onLoad) <= 1
        /\ Len(loads[k].onLoad) = 1 =>
              /\ \A i \in loads[k].texts : _textPromises[i] = "resolved"
              /\ loads[k].onLoad[1] = DrawnAlone(parsedDxfData.entities).objs

\* C30: load invokes onLoad exactly once per call, only after the sync
\* callback of every TEXT and MTEXT object made through the text loader has
\* fired, with the drawing objects in the order of the document's entities.
C30_OnLoadExactlyOnce ==
    /\ []C30_NeverEarly
    /\ \A k \in 1 .. MaxLoads :
          [](k \in DOMAIN loads => <>(k \in DOMAIN loads /\ Len(loads[k].onLoad) = 1))

\* C30 for the calls of load that drew every entity
C30_OnLoadOnceWhenDrawn ==
    /\ []C30_NeverEarly
    /\ \A k \in 1 .. MaxLoads :
          []((k \in DOMAIN loads /\ Succeeded(k)) =>
                 <>(k \in DOMAIN loads /\ Len(loads[k].onLoad) = 1))

-----------------------------------------------------------------------------
(* SpecValue: parseGroupValue applied to every code of ValueCodes and every  *)
(* raw string of at most MaxRawLen characters of RawChars.                  *)

MaxRawLen == 3
RawChars == {"0", "1", "7", "-", ".", " ", "A"}

RECURSIVE StringsUpTo(_)
StringsUpTo(k) ==
    IF k = 0 THEN {""}
    ELSE StringsUpTo(k - 1) \cup
         {str \o c : str \in {x \in StringsUpTo(k - 1) : Len(x) = k - 1}, c \in RawChars}

RawStrings == StringsUpTo(MaxRawLen)

\* Codes of no range of parseGroupValue's table (and of none of the DXF
\* reference's), and the value parseInt gives for a line that is no number.
UndocumentedCodes == {Num(150), Num(200), Num(250), Num(500), Num(2000), NaN}
ValueCodes ==
    {Num(0), Num(1), Num(6), Num(8), Num(40), Num(62), Num(70), Num(90),
     Num(210), Num(290), Num(105), Num(999), Num(0 - 3)} \cup UndocumentedCodes


InitValue ==
    /\ \E code \in ValueCodes, value \in RawStrings :
           pgv = [phase |-> "called", code |-> code, value |-> value]
    /\ ScannerUnused
    /\ ParserUnused
    /\ HostUnused

CallParseGroupValue ==
    /\ pgv.phase = "called"
    /\ pgv' = [phase |-> "done", code |-> pgv.code, value |-> pgv.value,
               out |-> parseGroupValue(pgv.code, pgv.value)]
    /\ UNCHANGED <<scannerVars, parserVars, hostVars>>

NextValue == CallParseGroupValue

SpecValue == InitValue /\ [][NextValue]_vars

-----------------------------------------------------------------------------
(* SpecScanner: a caller applies next(), hasNext() and isEOF() in any order  *)
(* to a scanner over every array of at most MaxScanLines lines of ScanLines. *)

MaxScanLines == 4
ScanLines == {"0", "  0", "EOF", " EOF ", "290", "1", "x"}

RECURSIVE ArraysUpTo(_)
ArraysUpTo(k) ==
    IF k = 0 THEN {<<>>}
    ELSE ArraysUpTo(k - 1) \cup
         {Append(a, l) : a \in {x \in ArraysUpTo(k - 1) : Len(x) = k - 1}, l \in ScanLines}

\* new DxfArrayScanner(data)
InitScanner ==
    /\ _data \in ArraysUpTo(MaxScanLines)
    /\ length = Len(_data)
    /\ _pointer = 0
    /\ _eof = FALSE
    /\ call = Idle
    /\ sawEof = FALSE
    /\ returned = 0
    /\ pgv = NoCall
    /\ ParserUnused
    /\ HostUnused

IsEofGroup(g) == g.code = Num(0) /\ g.value = Str("EOF")

CallNext ==
    LET r == next(This, _data)
    IN  /\ _pointer' = r.this._pointer
        /\ _eof' = r.this._eof
        /\ call' = [op |-> "next", out |-> r.out]
        /\ sawEof' = (sawEof \/ (~Throws(r.out) /\ IsEofGroup(r.out.value)))
        /\ returned' = IF Throws(r.out) THEN returned ELSE returned + 1
        /\ UNCHANGED <<hostVars, _data, length, pgv, parserVars>>

CallHasNext ==
    LET r == hasNext(This)
    IN  /\ _pointer' = r.this._pointer
        /\ _eof' = r.this._eof
        /\ call' = [op |-> "hasNext", out |-> Return(Bool(r.ret))]
        /\ UNCHANGED <<hostVars, _data, length, pgv, sawEof, returned, parserVars>>

CallIsEOF ==
    LET r == isEOF(This)
    IN  /\ _pointer' = r.this._pointer
        /\ _eof' = r.this._eof
        /\ call' = [op |-> "isEOF", out |-> Return(Bool(r.ret))]
        /\ UNCHANGED <<hostVars, _data, length, pgv, sawEof, returned, parserVars>>

NextScanner == CallNext \/ CallHasNext \/ CallIsEOF

SpecScanner == InitScanner /\ [][NextScanner]_vars

-----------------------------------------------------------------------------
(* Properties of the scanner (SpecScanner) *)

UnexpectedEofError == Throw("Unexpected end of input: EOF group not read before end of file")
EndOfInputError == Throw("Cannot call 'next' after EOF group has been read")

\* C7: once every complete pair of lines has been returned and none of the
\* groups returned was (0,"EOF"), a call of next() fails with the
\* unexpected-end-of-input error; once a group (0,"EOF") has been returned,
\* every call of next() fails with the called-after-EOF error, whatever
\* lines remain.
C7_ScannerExhaustion ==
    [][call'.op = "next" =>
         /\ (~sawEof /\ returned = length \div 2) => call'.out = UnexpectedEofError
         /\ sawEof => call'.out = EndOfInputError]_vars

\* C7's case: next() was called after (0,"EOF") with two more lines left.
C7_Witness ==
    /\ call.op = "next" /\ call.out = EndOfInputError
    /\ sawEof /\ _pointer <= length - 2

\* The group the two lines at the JavaScript indexes i and i + 1 make.
GroupAt(data, i) ==
    [code |-> ParseInt(At(data, i)),
     value |-> parseGroupValue(ParseInt(At(data, i)), Trim(At(data, i + 1))).value]

\* C8: a call of next() that returns advances the pointer by exactly two
\* lines and returns the group of the two lines it passed; no call makes the
\* pointer decrease; hasNext() and isEOF() change neither the pointer nor the
\* EOF flag.
C8_CursorAdvance ==
    [][/\ _pointer' >= _pointer
       /\ (call'.op = "next" /\ ~Throws(call'.out)) =>
              /\ _pointer' = _pointer + 2
              /\ call'.out.value = GroupAt(_data, _pointer)
       /\ call'.op \in {"hasNext", "isEOF"} =>
              /\ _pointer' = _pointer
              /\ _eof' = _eof]_vars

\* C8's case: two groups returned one after the other, then hasNext() asked.
C8_Witness ==
    /\ call.op = "hasNext" /\ call.out = Return(Bool(FALSE))
    /\ returned = 2 /\ _pointer = 4 /\ ~_eof

-----------------------------------------------------------------------------
(* Properties of the value parser (SpecValue) *)

\* A decimal numeral: an optional sign, digits, then optionally a point and
\* fraction digits, and nothing else.
IsNumeral(raw) ==
    LET signed == Len(raw) > 0 /\ CharAt(raw, 1) \in {"-", "+"}
        from == IF signed THEN 2 ELSE 1
        k == DigitRun(raw, from)
        point == from + k <= Len(raw) /\ CharAt(raw, from + k) = "."
        f == IF point THEN DigitRun(raw, from + k + 1) ELSE 0
    IN  /\ k >= 1
        /\ (from - 1) + k + (IF point THEN 1 + f ELSE 0) = Len(raw)

\* C9: parseGroupValue gives a string for the codes 0, 1, 6, 8 (any raw
\* string), a number for 40 and 210 and an integer for 62, 70, 90 (raw a
\* numeral), a boolean for 290 (raw "0" or "1"); for a code of no range it
\* returns the raw string itself and does not throw.
C9_GroupTyping ==
    pgv.phase = "done" =>
        /\ pgv.code \in {Num(0), Num(1), Num(6), Num(8)} =>
               ~Throws(pgv.out) /\ IsStr(pgv.out.value)
        /\ (pgv.code \in {Num(40), Num(210)} /\ IsNumeral(pgv.value)) =>
               ~Throws(pgv.out) /\ IsNum(pgv.out.value)
        /\ (pgv.code \in {Num(62), Num(70), Num(90)} /\ IsNumeral(pgv.value)) =>
               ~Throws(pgv.out) /\ IsInteger(pgv.out.value)
        /\ (pgv.code = Num(290) /\ pgv.value \in {"0", "1"}) =>
               ~Throws(pgv.out) /\ IsBool(pgv.out.value)
        /\ pgv.code \in UndocumentedCodes => pgv.out = Return(Str(pgv.value))

\* C9's case: the integer code 62 applied to a numeral with a fraction.
C9_Witness ==
    /\ pgv.phase = "done" /\ pgv.code = Num(62) /\ pgv.value = "1.7"
    /\ pgv.out = Return(Num(1))

-----------------------------------------------------------------------------
(* Properties of the document builder (Spec) *)

ScannerErrors ==
    {UnexpectedEofError.throw, EndOfInputError.throw,
     "TypeError: cannot be cast to Boolean type"}

\* C1: no loop iteration leaves the parse where it was: every iteration that
\* does not exit its loop reads a group, so parseSync returns or throws.
C1_EveryIterationAdvances == status # "looping"

\* C2: when parseSync returns the document, the scanner has read a group
\* (0,"EOF").
C2_ReturnsOnlyAfterEof == status = "returned" => _eof

IsSupported(tag) == EntityParser(Str(tag)) # "none"
TypesOf(entities) == [i \in 1 .. Len(entities) |-> entities[i].type.s]
\* parseSync has returned a document whose last ENTITIES section was closed
\* by (0,"ENDSEC").
ReturnedEntities == status = "returned" /\ Has(dxf, "entities") /\ ~sectionOpen

\* C3: the entities of an ENTITIES section closed by (0,"ENDSEC") are one
\* record for each code-0 group of the section that names an entity type
\* parseEntities supports, in input order.
C3_OneEntityPerSupportedTag ==
    ReturnedEntities => TypesOf(dxf.entities) = SelectSeq(entityTags, IsSupported)

\* C4: the entities of an ENTITIES section are one record for each code-0
\* group of the section that names one of the thirteen entity types of the
\* specification, its type being that name.
C4_EveryEntityTypeRouted ==
    ReturnedEntities => TypesOf(dxf.entities) = entityTags

SubParsers ==
    {"parseLWPOLYLINE", "parseLINE", "parseCIRCLE", "parseTEXT", "parseDIMENSION",
     "parseSOLID", "parsePOINT", "parsePolylineVertices", "parsePoint"}

\* C5: no entity routine throws an error of its own: an error thrown while
\* an entity routine runs is an error of the scanner.
C5_SubParserNeverRaises ==
    (status = "thrown" /\ stack # <<>> /\ Top.fn \in SubParsers) => error \in ScannerErrors

\* C6: every error parseSync throws is the empty-file error or an error of
\* the scanner.
C6_OnlyScannerErrors ==
    status = "thrown" => error \in ScannerErrors \cup {"Empty file"}

\* C10: between the name group of a section parseAll skips and the section's
\* (0,"ENDSEC") no group is interpreted: no section reader is called.
C10_SkippedSectionDrained == skipping => Len(stack) <= 1

-----------------------------------------------------------------------------
(* Properties of the header reader (Spec) *)

\* The value a header variable has after the value group g, its value so far
\* being value: a scalar, or a point assembled from the groups 10, 20, 30.
Assemble(value, g) ==
    IF g.code = Num(10) THEN [x |-> g.value]
    ELSE IF g.code = Num(20) THEN (IF IsObject(value) THEN Put(value, "y", g.value) ELSE value)
    ELSE IF g.code = Num(30) THEN (IF IsObject(value) THEN Put(value, "z", g.value) ELSE value)
    ELSE g.value

Commit(h, name, value) == IF name = Null THEN h ELSE Put(h, name.s, value)

\* The header the groups gs of a HEADER section describe: each variable with
\* the value assembled from the value groups between its own (9, name) group
\* and the next (9, ...) group or (0,"ENDSEC"); null for a variable without
\* value group.  name and value are the variable being read, h the header so
\* far.
RECURSIVE HeaderOf(_, _, _, _)
HeaderOf(gs, name, value, h) ==
    IF gs = <<>> \/ groupIs(Head(gs), 0, "ENDSEC") THEN Commit(h, name, value)
    ELSE IF Head(gs).code = Num(9)
    THEN HeaderOf(Tail(gs), Head(gs).value, Null, Commit(h, name, value))
    ELSE HeaderOf(Tail(gs), name, Assemble(value, Head(gs)), h)

\* C11: the header of the returned document holds every variable of the
\* HEADER section, the last one included, each with the value assembled from
\* its own value groups.
C11_HeaderOwnValues ==
    (status = "returned" /\ Has(dxf, "header")) =>
        dxf.header = HeaderOf(sectionGroups.header, Null, Null, EmptyObject)

-----------------------------------------------------------------------------
(* Properties of the table readers (Spec) *)

\* The groups of gs before its first group of code 0.
RECURSIVE Body(_)
Body(gs) ==
    IF gs = <<>> \/ Head(gs).code = Num(0) THEN <<>>
    ELSE <<Head(gs)>> \o Body(Tail(gs))

\* The records (0, tag) of the groups gs, each as the groups between its
\* (0, tag) group and the next group of code 0.
RECURSIVE RecordsOf(_, _)
RecordsOf(gs, tag) ==
    IF gs = <<>> THEN <<>>
    ELSE IF groupIs(Head(gs), 0, tag)
    THEN <<Body(Tail(gs))>> \o RecordsOf(Tail(gs), tag)
    ELSE RecordsOf(Tail(gs), tag)

\* The values of the groups of gs that have the code code, in order.
RECURSIVE ValuesOf(_, _)
ValuesOf(gs, code) ==
    IF gs = <<>> THEN <<>>
    ELSE IF Head(gs).code = Num(code)
    THEN <<Head(gs).value>> \o ValuesOf(Tail(gs), code)
    ELSE ValuesOf(Tail(gs), code)

\* The key a record is stored under: its last name group (code 2).
NameOf(r) ==
    LET names == ValuesOf(r, 2)
    IN  IF names = <<>> THEN "undefined" ELSE Key(names[Len(names)])

Palette(i) == Num(AUTO_CAD_COLOR_INDEX[i + 1])

TablesReturned(table) ==
    /\ status = "returned" /\ Has(dxf, "tables") /\ Has(dxf.tables, table)
    /\ Has(sectionGroups, "tables")

\* The groups of gs before its first (0, tag) group.
RECURSIVE Before(_, _)
Before(gs, tag) ==
    IF gs = <<>> \/ groupIs(Head(gs), 0, tag) THEN <<>>
    ELSE <<Head(gs)>> \o Before(Tail(gs), tag)

\* The records of the first table of the TABLES section.
TableRecords(tag) == RecordsOf(Before(sectionGroups.tables, "ENDTAB"), tag)

LayerRecords == TableRecords("LAYER")

\* The LAYER record i has one colour group and a name of its own.
OneColor(i) ==
    /\ Len(ValuesOf(LayerRecords[i], 62)) = 1
    /\ \A j \in DOMAIN LayerRecords \ {i} : NameOf(LayerRecords[j]) # NameOf(LayerRecords[i])

RawColor(i) == ValuesOf(LayerRecords[i], 62)[1].n

LayerOf(i) == dxf.tables.layers[NameOf(LayerRecords[i])]

\* C12: a LAYER record of raw colour c gives hidden = true and
\* color = palette[|c|] when c <= 0, hidden = false and color = palette[c]
\* when c > 0.
C12_HiddenFalseWhenPositive ==
    TablesReturned("layers") =>
        \A i \in DOMAIN LayerRecords :
            OneColor(i) =>
                /\ Has(LayerOf(i), "color") /\ Has(LayerOf(i), "hidden")
                /\ IF RawColor(i) <= 0
                   THEN /\ LayerOf(i).hidden = Bool(TRUE)
                        /\ LayerOf(i).color = Palette(0 - RawColor(i))
                   ELSE /\ LayerOf(i).hidden = Bool(FALSE)
                        /\ LayerOf(i).color = Palette(RawColor(i))

\* What parseLayers gives instead: hidden = true and color = palette[|c|]
\* when c <= 0; color = palette[c] and no hidden field at all when c > 0.
C12_HiddenOnlyWhenNotPositive ==
    TablesReturned("layers") =>
        \A i \in DOMAIN LayerRecords :
            OneColor(i) =>
                /\ Has(LayerOf(i), "color")
                /\ IF RawColor(i) <= 0
                   THEN /\ Get(LayerOf(i), "hidden") = Bool(TRUE)
                        /\ LayerOf(i).color = Palette(0 - RawColor(i))
                   ELSE /\ ~Has(LayerOf(i), "hidden")
                        /\ LayerOf(i).color = Palette(RawColor(i))

\* A returned document with a hidden layer of raw colour -3 and a visible
\* layer of raw colour 3, both of the colour 65280.
C12_HiddenAndVisibleLayer ==
    /\ TablesReturned("layers")
    /\ \E i, j \in DOMAIN LayerRecords :
        /\ OneColor(i) /\ RawColor(i) = -3
        /\ LayerOf(i) = [hidden |-> Bool(TRUE), color |-> Num(65280)]
        /\ OneColor(j) /\ RawColor(j) = 3
        /\ LayerOf(j) = [name |-> Str("B"), color |-> Num(65280)]

LineTypeRecords == TableRecords("LTYPE")

\* The key the LTYPE record i is stored under: the last name group of the
\* records up to it.
RECURSIVE LineTypeKey(_)
LineTypeKey(i) ==
    IF i = 0 THEN "undefined"
    ELSE IF ValuesOf(LineTypeRecords[i], 2) # <<>> THEN NameOf(LineTypeRecords[i])
    ELSE LineTypeKey(i - 1)

OwnKey(i) == \A j \in DOMAIN LineTypeRecords \ {i} : LineTypeKey(j) # LineTypeKey(i)

LineTypeOf(i) == dxf.tables.lineTypes[LineTypeKey(i)]

\* The element counts the LTYPE record r declares (code 73) and the elements
\* it supplies (code 49).
Declared(r) == ValuesOf(r, 73)
Elements(r) == ValuesOf(r, 49)

\* The record r declares its element count at most once, before its elements.
CountFirst(r) ==
    /\ Len(Declared(r)) <= 1
    /\ \A k \in DOMAIN r : r[k].code = Num(73) => Elements(SubSeq(r, 1, k)) = <<>>

\* The record r declares n > 0 elements and supplies another number of them.
Mismatched(r) ==
    /\ CountFirst(r) /\ Len(Declared(r)) = 1
    /\ Declared(r)[1].n > 0 /\ Declared(r)[1] # Num(Len(Elements(r)))

MismatchWarning == "WARNING: lengths do not match on LTYPE pattern"

Warnings == {k \in DOMAIN log : log[k] = MismatchWarning}

\* C13: an LTYPE record that declares n > 0 elements and supplies m # n of
\* them does not stop the parse, its line type keeps the m elements, and a
\* mismatch warning is logged for it, whichever record of the table it is,
\* the last one before (0,"ENDTAB") included.
C13_MismatchWarnedForEveryRecord ==
    (/\ TablesReturned("lineTypes")
     /\ \A i \in DOMAIN LineTypeRecords : CountFirst(LineTypeRecords[i])) =>
        /\ \A i \in DOMAIN LineTypeRecords :
              (Mismatched(LineTypeRecords[i]) /\ OwnKey(i)) =>
                  Get(LineTypeOf(i), "pattern") = Elements(LineTypeRecords[i])
        /\ Cardinality(Warnings) =
               Cardinality({i \in DOMAIN LineTypeRecords : Mismatched(LineTypeRecords[i])})

\* The same for the records that another (0,"LTYPE") group follows, and no
\* warning for the last record of the table.
C13_MismatchWarnedUnlessLast ==
    (/\ TablesReturned("lineTypes")
     /\ \A i \in DOMAIN LineTypeRecords : CountFirst(LineTypeRecords[i])) =>
        /\ \A i \in DOMAIN LineTypeRecords :
              (Mismatched(LineTypeRecords[i]) /\ OwnKey(i)) =>
                  Get(LineTypeOf(i), "pattern") = Elements(LineTypeRecords[i])
        /\ Cardinality(Warnings) =
               Cardinality({i \in DOMAIN LineTypeRecords :
                               Mismatched(LineTypeRecords[i]) /\ i < Len(LineTypeRecords)})

\* The record r declares a nonzero element count.
DeclaresElements(r) == \E k \in DOMAIN Declared(r) : Declared(r)[k] # Num(0)

\* C14: a line type has the field pattern exactly when its own record
\* declared a nonzero element count, and a record that declares none never
\* makes the parse fail, whatever the record before it declared and whether
\* or not it holds element groups: parseLineTypes throws no error of its own.
C14_PatternIffOwnRecordDeclares ==
    /\ TablesReturned("lineTypes") =>
          \A i \in DOMAIN LineTypeRecords :
              OwnKey(i) =>
                  (Has(LineTypeOf(i), "pattern") <=> DeclaresElements(LineTypeRecords[i]))
    /\ (status = "thrown" /\ stack # <<>> /\ Top.fn = "parseLineTypes") =>
          error \in ScannerErrors

-----------------------------------------------------------------------------
(* Properties of the block reader (Spec) *)

\* The groups after each (0,"BLOCK") group of gs.
RECURSIVE BlocksOf(_)
BlocksOf(gs) ==
    IF gs = <<>> THEN <<>>
    ELSE IF groupIs(Head(gs), 0, "BLOCK") THEN <<Tail(gs)>> \o BlocksOf(Tail(gs))
    ELSE BlocksOf(Tail(gs))

Blocks == BlocksOf(sectionGroups.blocks)

\* The block i is closed by a (0,"ENDBLK") group of its own.
Closed(i) ==
    /\ Before(Blocks[i], "ENDBLK") # Blocks[i]
    /\ Before(Blocks[i], "ENDBLK") = Before(Before(Blocks[i], "ENDBLK"), "BLOCK")

\* The groups between the (0,"BLOCK") group of the block i and its (0,"ENDBLK").
Inside(i) == Before(Blocks[i], "ENDBLK")

Last(values) == IF values = <<>> THEN Undefined ELSE values[Len(values)]
BlockName(i) == Last(ValuesOf(Body(Inside(i)), 2))
BlockLayer(i) == Last(ValuesOf(Body(Inside(i)), 8))

IsSupportedTag(g) == g.code = Num(0) /\ IsStr(g.value) /\ IsSupported(g.value.s)
\* The entity types parseEntities supports that the groups gs name, in order.
SupportedTags(gs) ==
    LET tags == SelectSeq(gs, IsSupportedTag) IN [k \in DOMAIN tags |-> tags[k].value.s]

BlocksReturned == status = "returned" /\ Has(dxf, "blocks") /\ Has(sectionGroups, "blocks")

\* C15: the block stored under a name carries that name, the layer of its
\* BLOCK record and, as entities, one entity for each supported entity group
\* between its (0,"BLOCK") and its (0,"ENDBLK"), in order, and nothing else,
\* in a BLOCKS section where each block is closed before the next one begins.
C15_BlockHoldsItsOwnEntities ==
    (BlocksReturned /\ \A i \in DOMAIN Blocks : Closed(i)) =>
        \A i \in DOMAIN Blocks :
            (\A j \in DOMAIN Blocks \ {i} : BlockName(j) # BlockName(i)) =>
                /\ Has(dxf.blocks, Key(BlockName(i)))
                /\ LET block == dxf.blocks[Key(BlockName(i))]
                   IN  /\ Get(block, "name") = BlockName(i)
                       /\ Get(block, "layer") = BlockLayer(i)
                       /\ TypesOf(IF Has(block, "entities") THEN block.entities ELSE <<>>)
                              = SupportedTags(Inside(i))

-----------------------------------------------------------------------------
(* Properties of the vertex readers (Spec) *)

\* The groups of gs before its first group of the code code, and the others.
RECURSIVE BeforeCode(_, _)
BeforeCode(gs, code) ==
    IF gs = <<>> \/ Head(gs).code = Num(code) THEN <<>>
    ELSE <<Head(gs)>> \o BeforeCode(Tail(gs), code)
FromCode(gs, code) == SubSeq(gs, Len(BeforeCode(gs, code)) + 1, Len(gs))

\* gs begins with a point whose x group has the code code: the groups code,
\* code + 10 and, when present, code + 20.
HasPoint(gs, code) ==
    Len(gs) >= 2 /\ gs[1].code = Num(code) /\ gs[2].code = Num(code + 10)
HasZ(gs, code) == Len(gs) >= 3 /\ gs[3].code = Num(code + 20)
PointAt(gs, code) ==
    IF HasZ(gs, code) THEN [x |-> gs[1].value, y |-> gs[2].value, z |-> gs[3].value]
    ELSE [x |-> gs[1].value, y |-> gs[2].value]
AfterPoint(gs, code) == SubSeq(gs, IF HasZ(gs, code) THEN 4 ELSE 3, Len(gs))

\* The vertices gs begins with, each a point (10, 20, 30) and the bulge group
\* (42) that follows it, if any, and the groups after them.
HasBulge(gs) == gs # <<>> /\ gs[1].code = Num(42)
RECURSIVE VertexList(_)
VertexList(gs) ==
    IF ~HasPoint(gs, 10) THEN [vertices |-> <<>>, rest |-> gs]
    ELSE LET after == AfterPoint(gs, 10)
             more == VertexList(IF HasBulge(after) THEN Tail(after) ELSE after)
             vertex == [point |-> PointAt(gs, 10),
                        bulge |-> IF HasBulge(after) THEN after[1].value ELSE Undefined]
         IN  [vertices |-> <<vertex>> \o more.vertices, rest |-> more.rest]

IsVertexGroup(g) == g.code \in {Num(10), Num(20), Num(30), Num(42)}

\* The groups of the entity being read, after its code-0 group.
RECURSIVE LastRecord(_)
LastRecord(gs) ==
    IF gs = <<>> \/ gs[Len(gs)].code = Num(0) THEN <<>>
    ELSE Append(LastRecord(SubSeq(gs, 1, Len(gs) - 1)), gs[Len(gs)])
LastTag(gs) == gs[Len(gs) - Len(LastRecord(gs))]

\* The vertex count an LWPOLYLINE record declares (code 90) before its
\* vertices, and the vertices that follow.
CountOf(r) == Last(ValuesOf(BeforeCode(r, 10), 90))
VerticesOf(r) == VertexList(FromCode(r, 10))

\* The record r declares n vertices and holds n vertices, each x, y, z if
\* any and bulge if any; or it is the beginning of such a record.
Complete(r) ==
    /\ IsNum(CountOf(r)) /\ Num(Len(VerticesOf(r).vertices)) = CountOf(r)
    /\ SelectSeq(VerticesOf(r).rest, IsVertexGroup) = <<>>
Beginning(r) ==
    /\ IsNum(CountOf(r)) /\ CountOf(r).n > Len(VerticesOf(r).vertices)
    /\ \/ VerticesOf(r).rest = <<>>
       \/ Len(VerticesOf(r).rest) = 1 /\ VerticesOf(r).rest[1].code = Num(10)

\* The section held the one entity tag and the returned document has the
\* entity r of it.
OneEntity(tag) ==
    /\ ReturnedEntities /\ Has(sectionGroups, "entities")
    /\ SupportedTags(sectionGroups.entities) = <<tag>>
TheRecord == Body(Tail(FromCode(sectionGroups.entities, 0)))

\* The vertices parsePolylineVertices has no right to refuse: parseSync has
\* thrown an error of the parser on a group of an LWPOLYLINE record that is
\* complete or the beginning of a complete one.
VerticesRefused ==
    /\ status = "thrown" /\ error \notin ScannerErrors /\ Has(sectionGroups, "entities")
    /\ LastRecord(sectionGroups.entities) # sectionGroups.entities
    /\ LastTag(sectionGroups.entities).value = Str("LWPOLYLINE")
    /\ LET r == LastRecord(sectionGroups.entities) IN Complete(r) \/ Beginning(r)

Coordinates(vertex) == [k \in DOMAIN vertex \cap {"x", "y", "z"} |-> vertex[k]]

\* The record r of a LINE has both endpoints, 10, 20 and 30 if any, then 11,
\* 21 and 31 if any.
EndsOf(r) == FromCode(r, 10)
BothEnds(r) ==
    /\ HasPoint(EndsOf(r), 10) /\ HasPoint(AfterPoint(EndsOf(r), 10), 11)
    /\ \A k \in DOMAIN AfterPoint(AfterPoint(EndsOf(r), 10), 11) :
          AfterPoint(AfterPoint(EndsOf(r), 10), 11)[k].code
              \notin {Num(10), Num(20), Num(30), Num(11), Num(21), Num(31)}

\* C16: an LWPOLYLINE that declares n vertices and holds n vertices (x, y, z
\* if any, bulge if any) gives n vertices, in order, each with its own
\* coordinates, and is never refused; a LINE with both endpoints gives 2
\* vertices.
C16_DeclaredVerticesRead ==
    /\ ~VerticesRefused
    /\ (OneEntity("LWPOLYLINE") /\ Complete(TheRecord)) =>
          /\ Len(dxf.entities) = 1
          /\ Len(dxf.entities[1].vertices) = CountOf(TheRecord).n
          /\ \A k \in DOMAIN dxf.entities[1].vertices :
                Coordinates(dxf.entities[1].vertices[k])
                    = VerticesOf(TheRecord).vertices[k].point
    /\ (OneEntity("LINE") /\ BothEnds(TheRecord)) =>
          /\ Len(dxf.entities) = 1
          /\ dxf.entities[1].vertices
                = <<PointAt(EndsOf(TheRecord), 10),
                    PointAt(AfterPoint(EndsOf(TheRecord), 10), 11)>>

\* The vertex parsePolylineVertices makes of a point and the bulge group
\* after it according to C17: the bulge is a field when it is not 0.
VertexOf(v) ==
    IF v.bulge \in {Undefined, Num(0)} THEN v.point ELSE Put(v.point, "bulge", v.bulge)

\* C17: a vertex followed by a bulge group of value 0 is read like a vertex
\* without bulge group, without bulge field, and the vertices and properties
\* after it are read as usual; a bulge that is not 0 is stored on its vertex.
C17_ZeroBulgeLikeNoBulge ==
    /\ ~VerticesRefused
    /\ (OneEntity("LWPOLYLINE") /\ Complete(TheRecord)) =>
          /\ Len(dxf.entities) = 1
          /\ dxf.entities[1].vertices
                = [k \in DOMAIN VerticesOf(TheRecord).vertices |->
                      VertexOf(VerticesOf(TheRecord).vertices[k])]

\* C18: the shape of an LWPOLYLINE is true exactly when bit 1 of its flags
\* (code 70) is set: flags 1 and 129 give a closed polyline, 0 and 128 an
\* open one.
C18_ShapeIsClosedBit ==
    (/\ OneEntity("LWPOLYLINE") /\ Complete(TheRecord)
     /\ Len(ValuesOf(TheRecord, 70)) = 1) =>
        /\ Len(dxf.entities) = 1
        /\ Get(dxf.entities[1], "shape") = Bool(ValuesOf(TheRecord, 70)[1].n % 2 = 1)

-----------------------------------------------------------------------------
(* Properties of the arc reader (Spec) *)

FullTurn == 360

\* The record r of an ARC has one start angle (code 50) and one end angle
\* (code 51), in whole degrees.
BothAngles(r) ==
    /\ Len(ValuesOf(r, 50)) = 1 /\ Len(ValuesOf(r, 51)) = 1
    /\ IsInteger(ValuesOf(r, 50)[1]) /\ IsInteger(ValuesOf(r, 51)[1])

\* end - start in degrees, a full turn added when it is negative.
Sweep(r) ==
    LET raw == ValuesOf(r, 51)[1].n - ValuesOf(r, 50)[1].n
    IN  IF raw < 0 THEN raw + FullTurn ELSE raw

\* C19: the angleLength of an ARC is its end angle minus its start angle,
\* a full turn added when that is negative, and lies in [0, 360) degrees
\* for every pair of start and end angle.
C19_AngleLengthWithinTurn ==
    (OneEntity("ARC") /\ BothAngles(TheRecord)) =>
        /\ Len(dxf.entities) = 1
        /\ Get(dxf.entities[1], "angleLength") = Radians(Num(Sweep(TheRecord)))
        /\ Sweep(TheRecord) \in 0 .. FullTurn - 1

-----------------------------------------------------------------------------
(* The whole document (Spec) *)

\* The groups the section readers have read are those of the sections of
\* Drawing, as next() gives them.
GroupOf(g) == [code |-> ParseInt(g[1]), value |-> parseGroupValue(ParseInt(g[1]), g[2]).value]
GroupsOf(gs) == [k \in DOMAIN gs |-> GroupOf(gs[k])]
\* The reader of the part part has read the groups gs, up to the (0,"ENDSEC")
\* that ends them.
SectionRead(part, gs) ==
    /\ Has(sectionGroups, part) /\ Len(sectionGroups[part]) >= Len(gs)
    /\ SubSeq(sectionGroups[part], 1, Len(gs)) = GroupsOf(gs)
DrawingRead ==
    /\ DOMAIN sectionGroups = {"header", "tables", "entities"}
    /\ SectionRead("header", DrawingHeader)
    /\ SectionRead("tables", DrawingTables)
    /\ SectionRead("entities", DrawingEntities)

-----------------------------------------------------------------------------
(* Properties of the entity routines (Spec) *)

EntityRoutines ==
    {"parseLWPOLYLINE", "parseLINE", "parseCIRCLE", "parseTEXT", "parseDIMENSION",
     "parseSOLID", "parsePOINT"}

\* The step is the return of an entity routine to its caller.
EntityReturns ==
    /\ status = "running" /\ Top.fn \in EntityRoutines
    /\ status' = "running" /\ Len(stack') = Len(stack) - 1

\* C26: when an entity routine returns, the current group is a code-0 group
\* that it leaves unread by anyone else: the return reads nothing, and
\* parseEntities, back in its loop, dispatches on that very group.
C26_ReturnsOnUnconsumedBoundary ==
    [][EntityReturns =>
          /\ curr.code = Num(0)
          /\ curr' = curr /\ _pointer' = _pointer
          /\ stack'[Len(stack')].fn = "parseEntities"
          /\ stack'[Len(stack')].pc = "loop"
          /\ Len(stack'[Len(stack')].entities) = Len(stack[Len(stack) - 1].entities) + 1
      ]_vars

\* An entity routine has returned on the group that names the next entity
\* of the section.
C26_ReturnedOnNextEntity ==
    /\ status = "running" /\ Top.fn = "parseEntities" /\ Top.pc = "loop"
    /\ Len(Top.entities) = 1 /\ IsSupportedTag(curr)
    /\ Has(sectionGroups, "entities")
    /\ curr = sectionGroups.entities[Len(sectionGroups.entities)]
    /\ Len(SupportedTags(sectionGroups.entities)) = 2

-----------------------------------------------------------------------------
(* Properties of the layer table (Spec) *)

\* Each LAYER record has one name group, and the names differ.
DistinctNames ==
    /\ \A i \in DOMAIN LayerRecords : Len(ValuesOf(LayerRecords[i], 2)) = 1
    /\ \A i, j \in DOMAIN LayerRecords :
          i # j => NameOf(LayerRecords[i]) # NameOf(LayerRecords[j])

\* The layer the groups of the record r alone describe: its name, the palette
\* colour of its last colour group, hidden when one of its colour groups is
\* not positive.
RECURSIVE LayerFrom(_, _)
LayerFrom(r, layer) ==
    IF r = <<>> THEN layer
    ELSE IF Head(r).code = Num(2) THEN LayerFrom(Tail(r), Put(layer, "name", Head(r).value))
    ELSE IF Head(r).code = Num(62)
    THEN LayerFrom(Tail(r),
                   Put(IF Head(r).value.n <= 0 THEN Put(layer, "hidden", Bool(TRUE)) ELSE layer,
                       "color",
                       Palette(IF Head(r).value.n < 0 THEN 0 - Head(r).value.n
                               ELSE Head(r).value.n)))
    ELSE LayerFrom(Tail(r), layer)

\* C27: a LAYER table of k records with distinct names gives a mapping with
\* exactly k keys, the names, and under each name the layer of that record
\* alone: nothing of a record is found in another one.
C27_OneLayerPerRecord ==
    (TablesReturned("layers") /\ DistinctNames) =>
        /\ DOMAIN dxf.tables.layers = {NameOf(LayerRecords[i]) : i \in DOMAIN LayerRecords}
        /\ Cardinality(DOMAIN dxf.tables.layers) = Len(LayerRecords)
        /\ \A i \in DOMAIN LayerRecords : LayerOf(i) = LayerFrom(LayerRecords[i], EmptyObject)

\* A returned table of two layers, the first hidden with a colour, the second
\* with its name only.
C27_TwoLayers ==
    /\ TablesReturned("layers") /\ DistinctNames /\ Len(LayerRecords) = 2
    /\ Has(LayerOf(1), "hidden") /\ Has(LayerOf(1), "color")
    /\ DOMAIN LayerOf(2) = {"name"}

-----------------------------------------------------------------------------
(* Properties of the document under construction (Spec) *)

\* Every entry of the mapping or sequence old is in new, unchanged.
Kept(old, new) == \A k \in DOMAIN old : k \in DOMAIN new /\ new[k] = old[k]

\* The entries the routine of the frame f has collected are in the frame g
\* it becomes.
FrameKept(f, g) ==
    CASE f.fn = "parseHeader" -> Kept(f.header, g.header)
      [] f.fn = "parseBlocks" -> Kept(f.blocks, g.blocks)
      [] f.fn = "parseTables" -> Kept(f.tables, g.tables)
      [] f.fn = "parseLayers" -> Kept(f.layers, g.layers)
      [] f.fn = "parseLineTypes" -> Kept(f.ltypes, g.ltypes)
      [] f.fn = "parseEntities" -> Kept(f.entities, g.entities)
      [] OTHER -> TRUE

\* C28: the document is built by appending only: no step of the parse
\* removes, replaces or changes an entry that is already in header, tables,
\* blocks or entities, in dxf or in the collection a routine is building.
C28_AppendOnly ==
    [][/\ Kept(dxf, dxf')
       /\ \A i \in DOMAIN stack \cap DOMAIN stack' :
             stack[i].fn = stack'[i].fn => FrameKept(stack[i], stack'[i])
      ]_vars

=============================================================================
